---- MODULE Spec2Model ----
(***************************************************************************)
(* Verification model of the headless storefront: the cart reducer and its *)
(* localStorage persistence (src/context/CartContext.tsx), the two         *)
(* serverless handlers (api/create-order.ts, api/create-payment-intent.ts),*)
(* the Stripe checkout form, the Home page product loader and the          *)
(* Shopify-hosted checkout page.                                           *)
(***************************************************************************)
EXTENDS Integers, Sequences, FiniteSets, TLC

VARIABLES
  \* ---- cart provider (CartContext.tsx) ----
  items,      \* CartState.items: sequence of CartItem records
  isOpen,     \* CartState.isOpen
  stored,     \* localStorage[CART_STORAGE_KEY]: NoStorage or a JSON document
  lastSave,   \* outcome of the most recent run of the save effect
  last,       \* the most recent cart event (action dispatched, or provider mount)
  \* ---- api/create-order.ts: one invocation of the handler ----
  oReq,       \* the request: method, configuration, body
  oPc,        \* where the handler is: idle, awaitCreate, awaitComplete, done
  oCalls,     \* Shopify Admin mutations sent so far, in order
  oCreate,    \* createResult, once draftOrderCreate has returned
  oComplete,  \* completeResult, once draftOrderComplete has returned
  oResp,      \* responses written to res, in order
  \* ---- api/create-payment-intent.ts: one invocation of the handler ----
  pReq,       \* the request: method, Stripe key, body
  pPc,        \* idle, awaitStripe, done
  pCalls,     \* arguments of the stripe.paymentIntents.create calls made
  pIntents,   \* payment intents Stripe created
  pResp,      \* responses written to res, in order
  pServed,    \* per request received: its items and its Stripe call (0: none)
  \* ---- Checkout page and CheckoutForm (Stripe checkout) ----
  ckPc,             \* unmounted, mounted
  ckUrl,            \* the query parameters success and redirect_status
  clientSecret,     \* "" until a payment intent was returned
  ckLoading,        \* loading
  ckError,          \* error: "null" or the message
  ckStripe,         \* getStripe(): none, loading, loaded, null, rejected
  orderComplete,    \* orderComplete
  orderName,        \* orderName, a character sequence
  shippingComplete, \* isShippingComplete
  ckPiInflight,     \* /api/create-payment-intent requests awaiting an answer
  ckPiSent,         \* how many such requests were sent
  fProcessing,      \* CheckoutForm.processing
  fError,           \* CheckoutForm.error
  fPc,              \* the call handleSubmit awaits: idle, submit, confirm, order
  attempt,          \* what the calls of the current submission returned
  fSubmits,         \* submissions so far
  ckOrderRequests,  \* /api/create-order requests sent, in order
  \* ---- Home page ----
  hPc,                \* unmounted, mounted
  hConfigured,        \* shopifyConfig.isConfigured
  hCollections,       \* collections: none, loading, loaded, failed
  selectedCollection, \* selectedCollection: a handle, or "null"
  products,           \* products: which fetch's result is displayed
  hLoading,           \* loading
  hError,             \* error: "null" or the message
  hInflight,          \* product fetches awaiting an answer
  hStarted,           \* product fetches started so far
  hEvent,             \* the latest event and the fetch it started (0: none)
  \* ---- Shopify-hosted checkout page ----
  sPc,          \* unmounted, lookup, cartCreate, done
  sStatus,      \* status
  sErrorMsg,    \* errorMsg
  hasStarted,   \* hasStarted.current
  sEffectRuns,  \* how many times the effect has run
  sIdx,         \* the cart item whose product query is awaited
  sLines,       \* lines built so far
  sRequests,    \* Storefront API requests sent, in order
  sCartRes,     \* cartRes, once cartCreate has returned
  sRedirect,    \* window.location.href once assigned, "" before
  sItems,       \* the items the running createShopifyCartAndRedirect closed over
  \* ---- Product page (product detail with a variant selector) ----
  prProduct,         \* product: NoProduct, or the product shown
  prSelectedVariant, \* selectedVariant: index into product.variants
  prAdds,            \* Add to Cart clicks so far
  \* ---- utils/images.ts ----
  imgCloud,     \* CLOUDINARY_CLOUD: "" when VITE_CLOUDINARY_CLOUD is unset
  imgCalls,     \* the calls of getResizedImage made: url, maxSize, result
  \* ---- ProductCard ----
  cardPc,       \* unmounted, mounted
  cardImage,    \* product.image
  cardPrice,    \* price, in hundredths
  isLoaded,     \* isLoaded
  useFallback,  \* useFallback
  imageError,   \* imageError
  cardImg,      \* the img element: none, loading, loaded, failed
  cardLoads,    \* the URLs the img element has started to load, in order
  \* ---- gallery Product page (Size and Frame selectors) ----
  gProduct,       \* product: NoProduct, or the product shown
  selectedSize,   \* selectedSize
  selectedFrame,  \* selectedFrame
  gClicks,        \* Add to Cart clicks so far
  gDispatched,    \* the actions handleAddToCart dispatched, in order
  \* ---- gallery store data (calculatePrice) ----
  priceCalls      \* the calls of calculatePrice made: sizeId, frameId, result

cartVars == <<items, isOpen, stored, lastSave, last>>
orderVars == <<oReq, oPc, oCalls, oCreate, oComplete, oResp>>
payVars == <<pReq, pPc, pCalls, pIntents, pResp, pServed>>

pageVars == <<ckPc, ckUrl, clientSecret, ckLoading, ckError, ckStripe,
              orderComplete, orderName, shippingComplete, ckPiInflight, ckPiSent>>
formVars == <<fProcessing, fError, fPc, attempt, fSubmits, ckOrderRequests>>
checkoutVars == <<pageVars, formVars>>

homeVars == <<hPc, hConfigured, hCollections, selectedCollection, products,
              hLoading, hError, hInflight, hStarted, hEvent>>
shopifyVars == <<sPc, sStatus, sErrorMsg, hasStarted, sEffectRuns, sIdx, sLines,
                 sRequests, sCartRes, sRedirect, sItems>>

productVars == <<prProduct, prSelectedVariant, prAdds>>
imageVars == <<imgCloud, imgCalls>>
cardVars == <<cardPc, cardImage, cardPrice, isLoaded, useFallback, imageError, cardImg,
              cardLoads>>
galleryVars == <<gProduct, selectedSize, selectedFrame, gClicks, gDispatched>>
\* the components added after the storefront core
priceVars == <<priceCalls>>
widgetVars == <<imageVars, cardVars, galleryVars, priceVars>>

vars == <<cartVars, orderVars, payVars, checkoutVars, homeVars, shopifyVars,
          productVars, widgetVars>>

\* what each component leaves alone
NotCart == <<orderVars, payVars, checkoutVars, homeVars, shopifyVars,
            productVars, widgetVars>>
NotOrder == <<cartVars, payVars, checkoutVars, homeVars, shopifyVars,
             productVars, widgetVars>>
NotPay == <<cartVars, orderVars, checkoutVars, homeVars, shopifyVars,
           productVars, widgetVars>>
NotCheckout == <<orderVars, payVars, homeVars, shopifyVars, productVars,
                widgetVars>>
NotHome == <<cartVars, orderVars, payVars, checkoutVars, shopifyVars,
            productVars, widgetVars>>
NotShopify == <<cartVars, orderVars, payVars, checkoutVars, homeVars,
               productVars, widgetVars>>
\* the Product page dispatches to the cart
NotProduct == <<orderVars, payVars, checkoutVars, homeVars, shopifyVars,
               widgetVars>>
NotImage == <<cartVars, orderVars, payVars, checkoutVars, homeVars,
             shopifyVars, productVars, cardVars, galleryVars, priceVars>>
NotCard == <<cartVars, orderVars, payVars, checkoutVars, homeVars,
            shopifyVars, productVars, imageVars, galleryVars, priceVars>>
\* the gallery Product page dispatches to the cart
NotGallery == <<orderVars, payVars, checkoutVars, homeVars, shopifyVars,
               productVars, imageVars, cardVars, priceVars>>
NotPrice == <<cartVars, orderVars, payVars, checkoutVars, homeVars,
             shopifyVars, productVars, imageVars, cardVars, galleryVars>>

\* ---------------------------------------------------------------- bounds
\* Largest quantity a single cart row is driven to.
MaxQty == 2
\* Most line items a create-order request carries.
MaxLines == 2
\* Most submissions of the payment form in one visit of the Checkout page.
MaxSubmits == 2
\* Most product fetches the Home page starts in one visit.
MaxFetches == 3
\* Most runs of the Shopify checkout page's effect in one mount.
MaxEffectRuns == 3
\* Most Add to Cart clicks in one visit of the Product page.
MaxAdds == 3
\* Most calls of getResizedImage that are compared with each other.
MaxCalls == 2

\* ---------------------------------------------------------------- cart
\* Products the storefront can put in the cart: the payloads the Product
\* pages build from the product and its selected variant.
Catalog ==
  { [productId |-> "p-1", variantId |-> "v1", title |-> "T1",
     variantTitle |-> "8x10", image |-> "i1", price |-> 45],
    [productId |-> "p-2", variantId |-> "v2", title |-> "T2",
     variantTitle |-> "24x30", image |-> "i2", price |-> 0] }

ItemKeyBugProductOnly(productId, variantId) == productId

\* `${productId}-${variantId}`
ItemKey(productId, variantId) == productId \o "-" \o variantId

Keys == { ItemKey(c.productId, c.variantId) : c \in Catalog }

\* quantities an UPDATE_QUANTITY action may carry
QtyInputs == (0 - 1) .. MaxQty

\* state.items.findIndex(item => item.key === itemKey); 0 stands for -1
FindIndex(its, k) ==
  IF \E i \in 1..Len(its) : its[i].key = k
  THEN CHOOSE i \in 1..Len(its) :
         its[i].key = k /\ \A j \in 1..(i - 1) : its[j].key # k
  ELSE 0

\* state.items.filter(item => item.key !== k)
FilterOut(its, k) == SelectSeq(its, LAMBDA it : it.key # k)

\* case 'ADD_ITEM'
AddItemBugNoMerge(its, p) ==
  Append(its, [key |-> ItemKey(p.productId, p.variantId),
               productId |-> p.productId, variantId |-> p.variantId,
               title |-> p.title, variantTitle |-> p.variantTitle,
               image |-> p.image, price |-> p.price, quantity |-> 1])

AddItem(its, p) ==
  LET itemKey == ItemKey(p.productId, p.variantId)
      existingIndex == FindIndex(its, itemKey)
  IN IF existingIndex > 0
     THEN [its EXCEPT ![existingIndex].quantity = @ + 1]
     ELSE Append(its, [key |-> itemKey,
                       productId |-> p.productId, variantId |-> p.variantId,
                       title |-> p.title, variantTitle |-> p.variantTitle,
                       image |-> p.image, price |-> p.price, quantity |-> 1])

RemoveItemBugRemovesFirst(its, k) ==
  IF \E i \in 1..Len(its) : its[i].key = k THEN Tail(its) ELSE its

\* case 'REMOVE_ITEM'
RemoveItem(its, k) == FilterOut(its, k)

UpdateQuantityBugKeepsZero(its, k, q) ==
  IF q < 0
  THEN FilterOut(its, k)
  ELSE [i \in 1..Len(its) |->
          IF its[i].key = k THEN [its[i] EXCEPT !.quantity = q] ELSE its[i]]

\* case 'UPDATE_QUANTITY'
UpdateQuantity(its, k, q) ==
  IF q <= 0
  THEN FilterOut(its, k)
  ELSE [i \in 1..Len(its) |->
          IF its[i].key = k THEN [its[i] EXCEPT !.quantity = q] ELSE its[i]]

\* ---- persistence: JSON.stringify({ items }) / JSON.parse -------------
NoStorage == [kind |-> "absent"]

StringifyItem(it) ==
  <<it.key, it.productId, it.variantId, it.title, it.variantTitle,
    it.image, it.price, it.quantity>>

ParseItem(t) ==
  [key |-> t[1], productId |-> t[2], variantId |-> t[3], title |-> t[4],
   variantTitle |-> t[5], image |-> t[6], price |-> t[7], quantity |-> t[8]]

\* the text written by saveCartToStorage: only the items, not isOpen
StringifyBugEmpty(its) == [kind |-> "json", items |-> <<>>]

Stringify(its) ==
  [kind |-> "json", items |-> [i \in 1..Len(its) |-> StringifyItem(its[i])]]

LoadCartFromStorageBugKeepsOpen(st) ==
  IF st.kind = "json"
  THEN [items |-> [i \in 1..Len(st.items) |-> ParseItem(st.items[i])],
        isOpen |-> TRUE]
  ELSE [items |-> <<>>, isOpen |-> FALSE]

\* loadCartFromStorage
LoadCartFromStorage(st) ==
  IF st.kind = "json"
  THEN [items |-> [i \in 1..Len(st.items) |-> ParseItem(st.items[i])],
        isOpen |-> FALSE]
  ELSE [items |-> <<>>, isOpen |-> FALSE]

\* saveCartToStorage inside the effect: setItem either returns or throws
\* (quota exceeded, storage disabled); a throw is caught and only logged.
SaveEffect(newItems) ==
  \E ok \in BOOLEAN :
    /\ stored' = IF ok THEN Stringify(newItems) ELSE stored
    /\ lastSave' = IF ok THEN "ok" ELSE "threw"

\* const total = cart.items.reduce((sum, item) => sum + item.price * item.quantity, 0)
RECURSIVE ReduceTotal(_, _)
ReduceTotal(its, sum) ==
  IF its = <<>> THEN sum
  ELSE ReduceTotal(Tail(its), sum + Head(its).price * Head(its).quantity)

TotalBugNoQty(its) ==
  IF its = <<>> THEN 0 ELSE Head(its).price + ReduceTotal(Tail(its), 0)

Total(its) == ReduceTotal(its, 0)

\* const itemCount = cart.items.reduce((sum, item) => sum + item.quantity, 0)
RECURSIVE ReduceCount(_, _)
ReduceCount(its, sum) ==
  IF its = <<>> THEN sum
  ELSE ReduceCount(Tail(its), sum + Head(its).quantity)

ItemCount(its) == ReduceCount(its, 0)

\* ---- cart actions ----------------------------------------------------
\* useReducer(cartReducer, null, loadCartFromStorage) followed by the
\* mount run of the save effect: a provider starting on the current storage
Mount ==
  LET c == LoadCartFromStorage(stored)
  IN /\ items' = c.items
     /\ isOpen' = c.isOpen
     /\ SaveEffect(c.items)
     /\ last' = [type |-> "MOUNT"]
     /\ UNCHANGED NotCart

ADD_ITEM_BugDrawerStays ==
  \E p \in Catalog :
    /\ \A i \in 1..Len(items) :
         items[i].key = ItemKey(p.productId, p.variantId)
           => items[i].quantity < MaxQty
    /\ items' = AddItem(items, p)
    /\ SaveEffect(items')
    /\ last' = [type |-> "ADD_ITEM", productId |-> p.productId,
                variantId |-> p.variantId]
    /\ UNCHANGED <<isOpen, NotCart>>

ADD_ITEM ==
  \E p \in Catalog :
    /\ \A i \in 1..Len(items) :
         items[i].key = ItemKey(p.productId, p.variantId)
           => items[i].quantity < MaxQty
    /\ items' = AddItem(items, p)
    /\ isOpen' = TRUE
    /\ SaveEffect(items')
    /\ last' = [type |-> "ADD_ITEM", productId |-> p.productId,
                variantId |-> p.variantId]
    /\ UNCHANGED NotCart

REMOVE_ITEM ==
  \E k \in Keys :
    /\ items' = RemoveItem(items, k)
    /\ SaveEffect(items')
    /\ last' = [type |-> "REMOVE_ITEM", key |-> k]
    /\ UNCHANGED <<isOpen, NotCart>>

UPDATE_QUANTITY ==
  \E k \in Keys, q \in QtyInputs :
    /\ items' = UpdateQuantity(items, k, q)
    /\ SaveEffect(items')
    /\ last' = [type |-> "UPDATE_QUANTITY", key |-> k, quantity |-> q]
    /\ UNCHANGED <<isOpen, NotCart>>

\* the CartState held by useReducer
CartState == [items |-> items, isOpen |-> isOpen]

ToggleCartBugOpens(state) == [state EXCEPT !.isOpen = TRUE]

\* case 'TOGGLE_CART': { ...state, isOpen: !state.isOpen }
ToggleCart(state) == [state EXCEPT !.isOpen = ~state.isOpen]

\* case 'CLOSE_CART': { ...state, isOpen: false }
CloseCart(state) == [state EXCEPT !.isOpen = FALSE]

\* items keeps its identity, so the save effect does not run
TOGGLE_CART ==
  /\ items' = ToggleCart(CartState).items
  /\ isOpen' = ToggleCart(CartState).isOpen
  /\ last' = [type |-> "TOGGLE_CART"]
  /\ UNCHANGED <<stored, lastSave, NotCart>>

CLOSE_CART ==
  /\ items' = CloseCart(CartState).items
  /\ isOpen' = CloseCart(CartState).isOpen
  /\ last' = [type |-> "CLOSE_CART"]
  /\ UNCHANGED <<stored, lastSave, NotCart>>

CLEAR_CART_BugClosesDrawer ==
  /\ items' = <<>>
  /\ isOpen' = FALSE
  /\ SaveEffect(items')
  /\ last' = [type |-> "CLEAR_CART"]
  /\ UNCHANGED NotCart

CLEAR_CART ==
  /\ items' = <<>>
  /\ SaveEffect(items')
  /\ last' = [type |-> "CLEAR_CART"]
  /\ UNCHANGED <<isOpen, NotCart>>

\* A provider on fresh storage, after its mount effect has run.
CartInit ==
  /\ items = <<>>
  /\ isOpen = FALSE
  /\ \E ok \in BOOLEAN :
       /\ stored = IF ok THEN Stringify(<<>>) ELSE NoStorage
       /\ lastSave = IF ok THEN "ok" ELSE "threw"
  /\ last = [type |-> "MOUNT"]

CartNext ==
  \/ Mount
  \/ ADD_ITEM
  \/ REMOVE_ITEM
  \/ UPDATE_QUANTITY
  \/ TOGGLE_CART
  \/ CLOSE_CART
  \/ CLEAR_CART

\* ---------------------------------------------------------------- api/create-order
None == [kind |-> "none"]
\* req.body when the request carries no parsable body
AbsentBody == [kind |-> "absent"]

\* falsy field values: undefined and the empty string
Falsy(x) == x \in {"undefined", ""}

OrderBodies ==
  {AbsentBody} \cup
  [kind : {"object"}, email : {"undefined", "a@b.c"},
   lineItems : (0 - 1)..MaxLines,   \* its length; -1: undefined
   shippingAddress : {"undefined", "addr"},
   paymentIntentId : {"undefined", "", "pi_1"}]

Methods == {"OPTIONS", "GET", "POST"}

OrderRequests ==
  [method : Methods, hasStore : BOOLEAN, hasToken : BOOLEAN, body : OrderBodies]

\* !email || !lineItems?.length || !shippingAddress || !paymentIntentId
MissingRequiredFields(b) ==
  \/ Falsy(b.email)
  \/ b.lineItems <= 0
  \/ Falsy(b.shippingAddress)
  \/ Falsy(b.paymentIntentId)

\* outcomes of one shopifyAdminRequest: a throw (fetch rejected, or a
\* non-2xx answer), or the parsed JSON
CreateOutcomes ==
  {[kind |-> "threw"]} \cup
  [kind : {"json"}, userErrors : BOOLEAN, draftOrderId : {"undefined", "gid-draft-1"}]

CompleteOutcomes ==
  {[kind |-> "threw"]} \cup
  [kind : {"json"}, userErrors : BOOLEAN, order : {"undefined", "#1001"}]

Json(status, body) == [status |-> status, body |-> body]

\* lines 106-134: what the handler does before the first Shopify call;
\* "send" stands for going on to draftOrderCreate
OrderEntry(r) ==
  IF r.method = "OPTIONS" THEN Json(200, "end")
  ELSE IF r.method # "POST" THEN Json(405, "Method not allowed")
  ELSE IF ~r.hasStore \/ ~r.hasToken THEN Json(500, "Shopify not configured")
  ELSE IF r.body = AbsentBody
       \* destructuring req.body throws inside the try block
       THEN Json(500, "Failed to create order")
  ELSE IF MissingRequiredFields(r.body) THEN Json(400, "Missing required fields")
  ELSE Json(0, "send")

\* lines 164-186: after draftOrderCreate returned
AfterCreateBugNoIdCheck(c) ==
  IF c.kind = "threw" THEN Json(500, "Failed to create order")
  ELSE IF c.userErrors THEN Json(400, "Failed to create draft order")
  ELSE Json(0, "send")

AfterCreate(c) ==
  IF c.kind = "threw" THEN Json(500, "Failed to create order")
  ELSE IF c.userErrors THEN Json(400, "Failed to create draft order")
  ELSE IF Falsy(c.draftOrderId) THEN Json(500, "Draft order creation failed")
  ELSE Json(0, "send")

AfterCompleteBugNoOrderCheck(c) ==
  IF c.kind = "threw" THEN Json(500, "Failed to create order")
  ELSE IF c.userErrors THEN Json(400, "Failed to complete draft order")
  ELSE [status |-> 200, body |-> "success", order |-> c.order]

\* lines 190-225: after draftOrderComplete returned
AfterComplete(c) ==
  IF c.kind = "threw" THEN Json(500, "Failed to create order")
  ELSE IF c.userErrors THEN Json(400, "Failed to complete draft order")
  ELSE IF Falsy(c.order) THEN Json(500, "Order completion failed")
  ELSE [status |-> 200, body |-> "success", order |-> c.order]

OrderIdle ==
  /\ oReq = None /\ oPc = "idle" /\ oCalls = <<>>
  /\ oCreate = None /\ oComplete = None /\ oResp = <<>>

\* handler(req, res) up to its first await or its response
OrderReceive ==
  /\ oPc = "idle"
  /\ \E r \in OrderRequests :
       LET e == OrderEntry(r)
       IN /\ oReq' = r
          /\ IF e.body = "send"
             THEN /\ oCalls' = Append(oCalls, "draftOrderCreate")
                  /\ oPc' = "awaitCreate"
                  /\ UNCHANGED oResp
             ELSE /\ oResp' = Append(oResp, e)
                  /\ oPc' = "done"
                  /\ UNCHANGED oCalls
  /\ UNCHANGED <<oCreate, oComplete, NotOrder>>

OrderCreateReturns ==
  /\ oPc = "awaitCreate"
  /\ \E c \in CreateOutcomes :
       LET e == AfterCreate(c)
       IN /\ oCreate' = c
          /\ IF e.body = "send"
             THEN /\ oCalls' = Append(oCalls, "draftOrderComplete")
                  /\ oPc' = "awaitComplete"
                  /\ UNCHANGED oResp
             ELSE /\ oResp' = Append(oResp, e)
                  /\ oPc' = "done"
                  /\ UNCHANGED oCalls
  /\ UNCHANGED <<oReq, oComplete, NotOrder>>

OrderCompleteReturns ==
  /\ oPc = "awaitComplete"
  /\ \E c \in CompleteOutcomes :
       /\ oComplete' = c
       /\ oResp' = Append(oResp, AfterComplete(c))
       /\ oPc' = "done"
  /\ UNCHANGED <<oReq, oCalls, oCreate, NotOrder>>

OrderNext == OrderReceive \/ OrderCreateReturns \/ OrderCompleteReturns

\* ---------------------------------------------------------------- api/create-payment-intent
\* req.body.total, in thousandths of a dollar so that fractions of a cent
\* are representable; Undefined when the body has no total
Undefined == [kind |-> "undefined"]
Num(m) == [kind |-> "number", mills |-> m]

PayTotals == {0 - 5000, 0, 10004, 19995, 45000}

PayBodies ==
  {AbsentBody} \cup
  [kind : {"object"}, items : 0..MaxLines,
   total : {Undefined} \cup {Num(m) : m \in PayTotals}]

\* STRIPE_SECRET_KEY: unset, set without the sk_test_/sk_live_ prefix, or valid
StripeKeys == {"missing", "invalid", "valid"}

PayRequests == [method : Methods, key : StripeKeys, body : PayBodies]

\* !total || total <= 0
InvalidTotal(t) == t = Undefined \/ t.mills <= 0

\* Math.round(total * 100): the nearest integer, halves rounded up
RoundCents(m) == (m + 5) \div 10

\* outcomes of stripe.paymentIntents.create
StripeOutcomes ==
  {[kind |-> "created"], [kind |-> "StripeError", statusCode |-> 402],
   [kind |-> "threw"]}

\* lines 24-50: what the handler does before calling Stripe
PayEntry(r) ==
  IF r.method = "OPTIONS" THEN Json(200, "end")
  ELSE IF r.method # "POST" THEN Json(405, "Method not allowed")
  ELSE IF r.key # "valid" THEN Json(500, "Stripe is not configured")
  ELSE IF r.body = AbsentBody
       \* destructuring req.body throws inside the try block; the error
       \* is no StripeError
       THEN Json(500, "Failed to create payment intent")
  ELSE IF InvalidTotal(r.body.total) THEN Json(400, "Invalid total amount")
  ELSE Json(0, "send")

PayReceive ==
  /\ pPc = "idle"
  /\ \E r \in PayRequests :
       LET e == PayEntry(r)
       IN /\ pReq' = r
          /\ pServed' = Append(pServed,
                [items |-> IF r.body = AbsentBody THEN 0 - 1 ELSE r.body.items,
                 call |-> IF e.body = "send" THEN Len(pCalls) + 1 ELSE 0])
          /\ IF e.body = "send"
             THEN /\ pCalls' = Append(pCalls,
                        [amount |-> RoundCents(r.body.total.mills),
                         currency |-> "usd"])
                  /\ pPc' = "awaitStripe"
                  /\ UNCHANGED pResp
             ELSE /\ pResp' = Append(pResp, e)
                  /\ pPc' = "done"
                  /\ UNCHANGED pCalls
  /\ UNCHANGED <<pIntents, NotPay>>

\* lines 53-80: stripe.paymentIntents.create returned or threw
PayStripeReturns ==
  /\ pPc = "awaitStripe"
  /\ \E o \in StripeOutcomes :
       IF o.kind = "created"
       THEN LET pi == [amount |-> pCalls[Len(pCalls)].amount,
                       currency |-> pCalls[Len(pCalls)].currency,
                       client_secret |-> "cs_1"]
            IN /\ pIntents' = Append(pIntents, pi)
               /\ pResp' = Append(pResp,
                     [status |-> 200, body |-> "clientSecret",
                      clientSecret |-> pi.client_secret])
       ELSE /\ pResp' = Append(pResp,
                 IF o.kind = "StripeError"
                 THEN Json(o.statusCode, "StripeError message")
                 ELSE Json(500, "Failed to create payment intent"))
            /\ UNCHANGED pIntents
  /\ pPc' = "done"
  /\ UNCHANGED <<pReq, pCalls, pServed, NotPay>>

PayNext == PayReceive \/ PayStripeReturns

\* the function is invoked for a further request once the previous one is
\* answered
PayAgain ==
  /\ pPc = "done"
  /\ Len(pServed) < MaxCalls
  /\ pPc' = "idle"
  /\ UNCHANGED <<pReq, pCalls, pIntents, pResp, pServed, NotPay>>

PayRepeatedNext == PayReceive \/ PayStripeReturns \/ PayAgain

\* ---------------------------------------------------------------- Checkout page (Stripe)
\* strings the code slices and upper-cases are character sequences
ToUpperCase(s) ==
  LET up == [c \in {"a", "b", "c", "x", "y", "z"} |->
               CASE c = "a" -> "A" [] c = "b" -> "B" [] c = "c" -> "C"
                 [] c = "x" -> "X" [] c = "y" -> "Y" [] c = "z" -> "Z"]
  IN [i \in 1..Len(s) |-> IF s[i] \in DOMAIN up THEN up[s[i]] ELSE s[i]]

\* s.slice(-8)
SliceLast8(s) == IF Len(s) <= 8 THEN s ELSE SubSeq(s, Len(s) - 7, Len(s))

\* paymentIntent.id.slice(-8).toUpperCase()
FallbackOrderName(id) == ToUpperCase(SliceLast8(id))

PaymentIntentId == <<"p", "i", "_", "3", "a", "b", "c", "1", "x", "y", "z", "9">>
ShopifyOrderName == <<"#", "1", "0", "0", "1">>

NoAttempt == [submit |-> "none", confirm |-> None, order |-> None, orderSent |-> FALSE]

\* what elements.submit() can do
SubmitOutcomes == {"ok", "error", "threw"}

\* what stripe.confirmPayment() can do with redirect: 'if_required'
ConfirmOutcomes ==
  {[kind |-> "error"], [kind |-> "threw"]} \cup
  [kind : {"paymentIntent"}, id : {PaymentIntentId},
   status : {"succeeded", "processing"}]

\* what the /api/create-order fetch can do: reject, answer with a body
\* that is no JSON, or answer JSON with or without an order name
OrderFetchOutcomes ==
  {[kind |-> "fetchThrew"], [kind |-> "notJson"]} \cup
  [kind : {"json"}, ok : BOOLEAN, name : {<<>>, ShopifyOrderName}]

\* the payment column shows <CheckoutForm>
\* searchParams.get(name): "absent" stands for null
NoUrl == [success |-> "absent", redirect_status |-> "absent"]

UrlParams ==
  [success : {"absent", "", "true"},
   redirect_status : {"absent", "succeeded", "failed"}]

\* a string is truthy unless it is null or empty
Truthy(x) == x \notin {"absent", ""}

IsSuccessFromUrlBugRedirectOnly(u) == u.redirect_status = "succeeded"

\* searchParams.get('success') || searchParams.get('redirect_status') === 'succeeded'
IsSuccessFromUrl(u) == Truthy(u.success) \/ u.redirect_status = "succeeded"

isSuccessFromUrl == IsSuccessFromUrl(ckUrl)

\* what the page renders
SuccessShown == ckPc = "mounted" /\ (isSuccessFromUrl \/ orderComplete)

EmptyCartShown == ckPc = "mounted" /\ ~SuccessShown /\ items = <<>>

PaymentIntentEffectBugNoEmptyCheck(its) ==
  /\ ckPiInflight' = ckPiInflight \cup
       {[id |-> ckPiSent + 1, method |-> "POST", items |-> its,
         total |-> Total(its)]}
  /\ ckPiSent' = ckPiSent + 1
  /\ UNCHANGED ckLoading

\* the payment-intent effect, run with no success state, on the cart its
PaymentIntentEffect(its) ==
  IF its = <<>>
  THEN /\ ckLoading' = FALSE
       /\ UNCHANGED <<ckPiInflight, ckPiSent>>
  ELSE /\ ckPiInflight' = ckPiInflight \cup
            {[id |-> ckPiSent + 1, method |-> "POST", items |-> its,
              total |-> Total(its)]}
       /\ ckPiSent' = ckPiSent + 1
       /\ UNCHANGED ckLoading

FormShown ==
  /\ ckPc = "mounted"
  /\ ~isSuccessFromUrl /\ ~orderComplete
  /\ items # <<>>
  /\ shippingComplete
  /\ ~ckLoading /\ ckStripe \in {"loaded", "null"}
  /\ ckError = "null"
  /\ clientSecret # ""

\* SuccessMessage mounts: dispatch({ type: 'CLEAR_CART' })
SuccessMessageMounts ==
  /\ items' = <<>>
  /\ SaveEffect(items')
  /\ last' = [type |-> "CLEAR_CART"]
  /\ UNCHANGED isOpen

\* the page mounts and its two effects run
CheckoutMount ==
  /\ ckPc = "unmounted"
  /\ ckPc' = "mounted"
  /\ \E u \in UrlParams :
       /\ ckUrl' = u
       /\ IF IsSuccessFromUrl(u)
          THEN /\ SuccessMessageMounts
               /\ UNCHANGED <<ckStripe, ckLoading, ckPiInflight, ckPiSent>>
          ELSE /\ ckStripe' = "loading"
               /\ PaymentIntentEffect(items)
               /\ UNCHANGED cartVars
  /\ UNCHANGED <<clientSecret, ckError, orderComplete, orderName,
                 shippingComplete, formVars, NotCheckout>>

\* the customer edits the cart in the drawer (Remove, or the minus button)
\* while the page is shown and before paying; items changes, so the
\* payment-intent effect runs again
CheckoutCartEdit ==
  /\ ckPc = "mounted"
  /\ fSubmits = 0
  /\ \E i \in 1..Len(items), op \in {"REMOVE_ITEM", "UPDATE_QUANTITY"} :
       /\ items' = IF op = "REMOVE_ITEM"
                   THEN RemoveItem(items, items[i].key)
                   ELSE UpdateQuantity(items, items[i].key,
                                       items[i].quantity - 1)
       /\ last' = IF op = "REMOVE_ITEM"
                  THEN [type |-> op, key |-> items[i].key]
                  ELSE [type |-> op, key |-> items[i].key,
                        quantity |-> items[i].quantity - 1]
  /\ SaveEffect(items')
  /\ IF isSuccessFromUrl \/ orderComplete
     THEN UNCHANGED <<ckLoading, ckPiInflight, ckPiSent>>
     ELSE PaymentIntentEffect(items')
  /\ UNCHANGED <<isOpen, ckPc, ckUrl, clientSecret, ckError, ckStripe,
                 orderComplete, orderName, shippingComplete, formVars,
                 NotCheckout>>

\* getStripe().then(() => setStripeReady(true)), or the promise rejects
CheckoutStripeLoaded ==
  /\ ckStripe = "loading"
  /\ ckStripe' \in {"loaded", "null", "rejected"}
  /\ UNCHANGED <<ckPc, ckUrl, clientSecret, ckLoading, ckError,
                 orderComplete, orderName, shippingComplete, ckPiInflight,
                 ckPiSent, formVars, cartVars, NotCheckout>>

\* data.clientSecret of the answer to request id: every payment intent has
\* its own client secret
ClientSecretOf(id) == "cs_" \o ToString(id)

\* createPaymentIntent after its fetch settled; the fetches settle in any
\* order, the effect has no cleanup and no request is aborted
CheckoutPaymentIntentReturns ==
  /\ \E r \in ckPiInflight, o \in {"ok", "notOk", "threw"} :
       /\ ckPiInflight' = ckPiInflight \ {r}
       /\ IF o = "ok"
          THEN clientSecret' = ClientSecretOf(r.id) /\ UNCHANGED ckError
          ELSE /\ ckError' = "Unable to initialize payment. Please try again."
               /\ UNCHANGED clientSecret
       /\ ckLoading' = FALSE
  /\ UNCHANGED <<ckPc, ckUrl, ckStripe, orderComplete, orderName,
                 shippingComplete, ckPiSent, formVars, cartVars, NotCheckout>>

\* the customer completes the e-mail and shipping fields
CheckoutFillShipping ==
  /\ ckPc = "mounted" /\ ~shippingComplete
  /\ shippingComplete' = TRUE
  /\ UNCHANGED <<ckPc, ckUrl, clientSecret, ckLoading, ckError,
                 ckStripe, orderComplete, orderName, ckPiInflight, ckPiSent,
                 formVars, cartVars, NotCheckout>>

\* handleSubmit up to await elements.submit()
FormSubmit ==
  /\ FormShown
  /\ ckStripe = "loaded"          \* if (!stripe || !elements) return
  /\ ~fProcessing                 \* the button is disabled while processing
  /\ fPc = "idle"
  /\ fSubmits < MaxSubmits
  /\ fSubmits' = fSubmits + 1
  /\ fProcessing' = TRUE
  /\ fError' = "null"
  /\ attempt' = NoAttempt
  /\ fPc' = "submit"
  /\ UNCHANGED <<ckOrderRequests, pageVars, cartVars, NotCheckout>>

\* catch (err): setError, setProcessing(false)
FormCatch ==
  /\ fError' = "An unexpected error occurred. Please try again."
  /\ fProcessing' = FALSE
  /\ fPc' = "idle"

\* elements.submit() settled
FormSubmitReturns ==
  /\ fPc = "submit"
  /\ \E o \in SubmitOutcomes :
       /\ attempt' = [attempt EXCEPT !.submit = o]
       /\ CASE o = "error" ->
                 /\ fError' = "Payment failed"
                 /\ fProcessing' = FALSE
                 /\ fPc' = "idle"
            [] o = "threw" -> FormCatch
            [] o = "ok" ->
                 /\ fPc' = "confirm"
                 /\ UNCHANGED <<fError, fProcessing>>
  /\ UNCHANGED <<fSubmits, ckOrderRequests, pageVars, cartVars, NotCheckout>>

\* line 90: the order is created when the payment intent succeeded
OrderIsDueBugAnyStatus(c) == c.kind = "paymentIntent"

OrderIsDue(c) == c.kind = "paymentIntent" /\ c.status = "succeeded"

\* stripe.confirmPayment() settled
FormConfirmReturns ==
  /\ fPc = "confirm"
  /\ \E c \in ConfirmOutcomes :
       /\ attempt' = [attempt EXCEPT !.confirm = c, !.orderSent = OrderIsDue(c)]
       /\ CASE c.kind = "threw" -> FormCatch /\ UNCHANGED ckOrderRequests
            [] c.kind = "error" ->
                 /\ fError' = "Payment failed"
                 /\ fProcessing' = FALSE
                 /\ fPc' = "idle"
                 /\ UNCHANGED ckOrderRequests
            [] OrderIsDue(c) ->
                 /\ ckOrderRequests' = Append(ckOrderRequests,
                       [paymentIntentId |-> c.id, total |-> Total(items),
                        lineItems |-> Len(items)])
                 /\ fPc' = "order"
                 /\ UNCHANGED <<fError, fProcessing>>
            [] OTHER ->
                 \* neither an error nor 'succeeded': handleSubmit ends
                 /\ fPc' = "idle"
                 /\ UNCHANGED <<fError, fProcessing, ckOrderRequests>>
  /\ UNCHANGED <<fSubmits, pageVars, cartVars, NotCheckout>>

\* lines 115-125: the name handed to onSuccess once orderResponse.json()
\* was read
SuccessName(o, id) ==
  IF ~o.ok THEN FallbackOrderName(id)
  ELSE IF o.name # <<>> THEN o.name ELSE FallbackOrderName(id)

\* the /api/create-order fetch settled; onSuccess sets orderName and
\* orderComplete, and the success page clears the cart
FormOrderReturns ==
  /\ fPc = "order"
  /\ \E o \in OrderFetchOutcomes :
       /\ attempt' = [attempt EXCEPT !.order = o]
       /\ IF o.kind \in {"fetchThrew", "notJson"}
          THEN /\ FormCatch
               /\ UNCHANGED <<orderName, orderComplete, cartVars>>
          ELSE /\ orderName' = SuccessName(o, attempt.confirm.id)
               /\ orderComplete' = TRUE
               /\ SuccessMessageMounts
               /\ fPc' = "idle"
               /\ UNCHANGED <<fError, fProcessing>>
  /\ UNCHANGED <<fSubmits, ckOrderRequests, ckPc, ckUrl, clientSecret,
                 ckLoading, ckError, ckStripe, shippingComplete, ckPiInflight,
                 ckPiSent, NotCheckout>>

CheckoutNext ==
  \/ CheckoutMount
  \/ CheckoutCartEdit
  \/ CheckoutStripeLoaded
  \/ CheckoutPaymentIntentReturns
  \/ CheckoutFillShipping
  \/ FormSubmit
  \/ FormSubmitReturns
  \/ FormConfirmReturns
  \/ FormOrderReturns

CheckoutIdle ==
  /\ ckPc = "unmounted" /\ ckUrl = NoUrl /\ clientSecret = ""
  /\ ckLoading = TRUE /\ ckError = "null" /\ ckStripe = "none"
  /\ orderComplete = FALSE /\ orderName = <<>> /\ shippingComplete = FALSE
  /\ ckPiInflight = {} /\ ckPiSent = 0
  /\ fProcessing = FALSE /\ fError = "null" /\ fPc = "idle"
  /\ attempt = NoAttempt /\ fSubmits = 0 /\ ckOrderRequests = <<>>

\* carts a customer can arrive at the Checkout page with
CheckoutCarts ==
  { <<>> } \cup
  { AddItem(<<>>, p) : p \in Catalog } \cup
  { AddItem(AddItem(AddItem(<<>>, p), p), q) : p, q \in Catalog }

\* ---------------------------------------------------------------- Home page
\* collection handles; "null" selects all products
Handles == {"null", "monet", "degas"}

LoadError == "Failed to load artwork. Please try again."

\* the body of the products effect (lines 41-70) up to its await
StartLoadProducts ==
  IF ~hConfigured
  THEN /\ hLoading' = FALSE
       /\ UNCHANGED <<hError, hInflight, hStarted>>
  ELSE /\ hLoading' = TRUE
       /\ hError' = "null"
       /\ hInflight' = hInflight \cup
            {[id |-> hStarted + 1, collection |-> selectedCollection']}
       /\ hStarted' = hStarted + 1

\* useEffect(..., [selectedCollection]): after the mount, the effect runs
\* again only when the dependency changed
ProductsEffectRuns(old, new) == old # new

\* handleCollectionChange(handle): setSelectedCollection and setSearchParams
HandleCollectionChange(handle, event) ==
  /\ selectedCollection' = handle
  /\ IF ProductsEffectRuns(selectedCollection, handle)
     THEN /\ hConfigured => hStarted < MaxFetches
          /\ StartLoadProducts
          /\ hEvent' = [type |-> event,
                        fetch |-> IF hConfigured THEN hStarted + 1 ELSE 0]
     ELSE /\ UNCHANGED <<hLoading, hError, hInflight, hStarted>>
          /\ hEvent' = [type |-> event, fetch |-> 0]
  /\ UNCHANGED <<hPc, hConfigured, hCollections, products, NotHome>>

\* first render with ?collection=<param>, then both effects
HomeMount ==
  /\ hPc = "unmounted"
  /\ hPc' = "mounted"
  /\ \E c \in BOOLEAN, param \in Handles :
       /\ hConfigured' = c
       /\ selectedCollection' = param
       /\ hCollections' = IF c THEN "loading" ELSE "none"
       /\ IF ~c
          THEN /\ hLoading' = FALSE
               /\ UNCHANGED <<hError, hInflight, hStarted>>
               /\ hEvent' = [type |-> "mount", fetch |-> 0]
          ELSE /\ hLoading' = TRUE
               /\ hError' = "null"
               /\ hInflight' = {[id |-> 1, collection |-> param]}
               /\ hStarted' = 1
               /\ hEvent' = [type |-> "mount", fetch |-> 1]
  /\ UNCHANGED <<products, NotHome>>

\* fetchCollections settled: setCollections, or the error is logged
HomeCollectionsReturn ==
  /\ hCollections = "loading"
  /\ hCollections' \in {"loaded", "failed"}
  /\ hEvent' = [type |-> "collections", fetch |-> 0]
  /\ UNCHANGED <<hPc, hConfigured, selectedCollection, products, hLoading,
                 hError, hInflight, hStarted, NotHome>>

\* the customer picks another collection in the selector
HomeSelect ==
  /\ hPc = "mounted" /\ hCollections = "loaded"
  /\ \E handle \in Handles \ {selectedCollection} :
       HandleCollectionChange(handle, "select")

\* the Try Again button: onClick={() => handleCollectionChange(selectedCollection)}
HomeTryAgain ==
  /\ hPc = "mounted" /\ hError # "null"
  /\ HandleCollectionChange(selectedCollection, "try_again")

\* a product fetch settled: setProducts or setError, then setLoading(false)
HomeFetchReturns ==
  /\ \E f \in hInflight, ok \in BOOLEAN :
       /\ hInflight' = hInflight \ {f}
       /\ IF ok
          THEN /\ products' = [kind |-> "fetched", fetch |-> f.id,
                               collection |-> f.collection]
               /\ UNCHANGED hError
               /\ hEvent' = [type |-> "fetch_ok", fetch |-> 0]
          ELSE /\ hError' = LoadError
               /\ UNCHANGED products
               /\ hEvent' = [type |-> "fetch_failed", fetch |-> 0]
       /\ hLoading' = FALSE
  /\ UNCHANGED <<hPc, hConfigured, hCollections, selectedCollection, hStarted,
                 NotHome>>

HomeNext ==
  \/ HomeMount
  \/ HomeCollectionsReturn
  \/ HomeSelect
  \/ HomeTryAgain
  \/ HomeFetchReturns

HomeIdle ==
  /\ hPc = "unmounted" /\ hConfigured = FALSE /\ hCollections = "none"
  /\ selectedCollection = "null" /\ products = None /\ hLoading = TRUE
  /\ hError = "null" /\ hInflight = {} /\ hStarted = 0
  /\ hEvent = [type |-> "none", fetch |-> 0]

\* ---------------------------------------------------------------- Shopify-hosted checkout page
\* the first variant Shopify lists for a product handle (GET_PRODUCT_QUERY,
\* variants(first: 1)); "undefined" when the product is not in the store
FirstVariantOf(handle) ==
  CASE handle = "p-1" -> "v1"
    [] handle = "p-2" -> "v0"
    [] OTHER -> "undefined"

\* what one product query can bring: a throw (fetch rejected or the body
\* is no JSON), no product, or the product's first variant
ProductQueryOutcomes(handle) ==
  {[kind |-> "threw"], [kind |-> "json", variantId |-> "undefined"],
   [kind |-> "json", variantId |-> FirstVariantOf(handle)]}

CartCreateOutcomes ==
  {[kind |-> "threw"]} \cup
  [kind : {"json"}, checkoutUrl : {"undefined", "https://checkout"},
   userErrors : BOOLEAN]

ProductQuery(handle) == [query |-> "getProduct", handle |-> handle]

\* catch (err): setStatus('error'), setErrorMsg(err.message)
ShopifyFail(msg) ==
  /\ sStatus' = "error"
  /\ sErrorMsg' = msg
  /\ sPc' = "done"

HasStartedGuardBugNeverSet(started) == FALSE

\* if (hasStarted.current) return
HasStartedGuard(started) == started

\* hasStarted.current = true and createShopifyCartAndRedirect() up to its
\* first await (lines 58-72), on the items of the render the effect
\* belongs to
ShopifyStart(its) ==
  /\ hasStarted' = TRUE
  /\ sItems' = its
  /\ sLines' = <<>>
  /\ IF its = <<>>
     THEN /\ ShopifyFail("Your cart is empty")
          /\ UNCHANGED <<sIdx, sRequests>>
     ELSE /\ sStatus' = "loading"
          /\ sIdx' = 1
          /\ sRequests' = Append(sRequests, ProductQuery(its[1].productId))
          /\ sPc' = "lookup"
          /\ UNCHANGED sErrorMsg
  /\ UNCHANGED <<sCartRes, sRedirect>>

\* one run of the effect (lines 56-111)
ShopifyEffect(its) ==
  IF HasStartedGuard(hasStarted)
  THEN UNCHANGED <<sPc, sStatus, sErrorMsg, hasStarted, sIdx, sLines,
                   sRequests, sCartRes, sRedirect, sItems>>
  ELSE ShopifyStart(its)

\* the page mounts and the effect runs for the first time
ShopifyMount ==
  /\ sPc = "unmounted"
  /\ sEffectRuns' = 1
  /\ ShopifyEffect(items)
  /\ UNCHANGED NotShopify

\* the effect runs again with the same items (StrictMode runs every effect
\* of a mounting component twice, keeping its refs)
ShopifyEffectAgain ==
  /\ sPc # "unmounted"
  /\ sEffectRuns < MaxEffectRuns
  /\ sEffectRuns' = sEffectRuns + 1
  /\ ShopifyEffect(items)
  /\ UNCHANGED NotShopify

\* the customer edits the cart in the drawer while the page is shown:
\* items changes, so the effect runs again
ShopifyCartEdit ==
  /\ sPc # "unmounted"
  /\ sEffectRuns < MaxEffectRuns
  /\ sEffectRuns' = sEffectRuns + 1
  /\ \E i \in 1..Len(items), op \in {"REMOVE_ITEM", "UPDATE_QUANTITY"} :
       /\ items' = IF op = "REMOVE_ITEM"
                   THEN RemoveItem(items, items[i].key)
                   ELSE UpdateQuantity(items, items[i].key,
                                       items[i].quantity - 1)
       /\ last' = IF op = "REMOVE_ITEM"
                  THEN [type |-> op, key |-> items[i].key]
                  ELSE [type |-> op, key |-> items[i].key,
                        quantity |-> items[i].quantity - 1]
  /\ SaveEffect(items')
  /\ ShopifyEffect(items')
  /\ UNCHANGED <<isOpen, orderVars, payVars, checkoutVars, homeVars,
                 productVars, widgetVars>>

\* one product query settled (lines 72-91)
ShopifyProductReturns ==
  /\ sPc = "lookup"
  /\ \E o \in ProductQueryOutcomes(sItems[sIdx].productId) :
       IF o.kind = "threw"
       THEN /\ ShopifyFail("Failed to fetch")
            /\ UNCHANGED <<sIdx, sLines, sRequests>>
       ELSE LET lines == IF o.variantId # "undefined"
                         THEN Append(sLines, [merchandiseId |-> o.variantId,
                                              quantity |-> sItems[sIdx].quantity])
                         ELSE sLines
            IN /\ sLines' = lines
               /\ IF sIdx < Len(sItems)
                  THEN /\ sIdx' = sIdx + 1
                       /\ sRequests' = Append(sRequests,
                             ProductQuery(sItems[sIdx + 1].productId))
                       /\ UNCHANGED <<sPc, sStatus, sErrorMsg>>
                  ELSE IF lines = <<>>
                  THEN /\ ShopifyFail("Products not found in Shopify")
                       /\ UNCHANGED <<sIdx, sRequests>>
                  ELSE /\ sRequests' = Append(sRequests,
                             [query |-> "cartCreate", lines |-> lines])
                       /\ sPc' = "cartCreate"
                       /\ UNCHANGED <<sIdx, sStatus, sErrorMsg>>
  /\ UNCHANGED <<hasStarted, sEffectRuns, sCartRes, sRedirect, sItems,
                 NotShopify>>

\* lines 93-105: what follows the answer to cartCreate
CartCreateVerdictBugIgnoreErrors(c) ==
  IF c.kind = "threw" THEN "Failed to fetch"
  ELSE IF c.checkoutUrl = "undefined" THEN "Failed to create checkout"
  ELSE "redirect"

CartCreateVerdict(c) ==
  IF c.kind = "threw" THEN "Failed to fetch"
  ELSE IF c.userErrors THEN "userErrors[0].message"
  ELSE IF c.checkoutUrl = "undefined" THEN "Failed to create checkout"
  ELSE "redirect"

\* cartCreate settled
ShopifyCartReturns ==
  /\ sPc = "cartCreate"
  /\ \E c \in CartCreateOutcomes :
       /\ sCartRes' = c
       /\ IF CartCreateVerdict(c) = "redirect"
          THEN /\ sStatus' = "redirecting"
               /\ sRedirect' = c.checkoutUrl
               /\ sPc' = "done"
               /\ UNCHANGED sErrorMsg
          ELSE /\ ShopifyFail(CartCreateVerdict(c))
               /\ UNCHANGED sRedirect
  /\ UNCHANGED <<hasStarted, sEffectRuns, sIdx, sLines, sRequests, sItems,
                 NotShopify>>

ShopifyNext ==
  \/ ShopifyMount
  \/ ShopifyEffectAgain
  \/ ShopifyProductReturns
  \/ ShopifyCartReturns

ShopifyEditNext == ShopifyNext \/ ShopifyCartEdit

ShopifyIdle ==
  /\ sPc = "unmounted" /\ sStatus = "loading" /\ sErrorMsg = ""
  /\ hasStarted = FALSE /\ sEffectRuns = 0 /\ sIdx = 0 /\ sLines = <<>> /\ sRequests = <<>>
  /\ sCartRes = None /\ sRedirect = "" /\ sItems = <<>>

\* ---------------------------------------------------------------- idle groups
\* ---------------------------------------------------------------- Product page
NoProduct == [handle |-> "null"]

\* Products as the Storefront API returns them: the handle is lower-case
\* words joined by hyphens, a variant id is a Shopify GID, a price is a
\* decimal string.
Products ==
  { [handle |-> "monet", title |-> "Water Lilies", featuredImage |-> "i1",
     variants |->
       << [id |-> "gid://shopify/ProductVariant/1", title |-> "8x10",
           price |-> <<"4", "5", ".", "0", "0">>],
          [id |-> "gid://shopify/ProductVariant/2", title |-> "16x20",
           price |-> <<"9", "0", ".", "5">>] >>],
    [handle |-> "monet-gid", title |-> "Haystacks", featuredImage |-> "i2",
     variants |->
       << [id |-> "gid://shopify/ProductVariant/3", title |-> "8x10",
           price |-> <<"4", "5">>] >>] }

DigitValue(c) ==
  CASE c = "0" -> 0 [] c = "1" -> 1 [] c = "2" -> 2 [] c = "3" -> 3
    [] c = "4" -> 4 [] c = "5" -> 5 [] c = "6" -> 6 [] c = "7" -> 7
    [] c = "8" -> 8 [] c = "9" -> 9

\* the digits of cs read as a decimal integer, continuing from acc
RECURSIVE ReadDigits(_, _)
ReadDigits(cs, acc) ==
  IF cs = <<>> THEN acc
  ELSE ReadDigits(Tail(cs), 10 * acc + DigitValue(Head(cs)))

\* parseFloat of a money string with at most two decimals; the number is
\* held in hundredths
ParseFloat(cs) ==
  LET dot == IF \E i \in 1..Len(cs) : cs[i] = "."
             THEN CHOOSE i \in 1..Len(cs) : cs[i] = "."
             ELSE Len(cs) + 1
      whole == ReadDigits(SubSeq(cs, 1, dot - 1), 0)
      frac == SubSeq(cs, dot + 1, Len(cs))
  IN 100 * whole
       + (IF Len(frac) = 0 THEN 0
          ELSE IF Len(frac) = 1 THEN 10 * DigitValue(frac[1])
          ELSE 10 * DigitValue(frac[1]) + DigitValue(frac[2]))

\* the page is opened for a product (passed in the navigation state)
ProductOpen ==
  /\ \E p \in Products : prProduct' = p
  /\ prSelectedVariant' = 0
  /\ UNCHANGED <<prAdds, cartVars, NotProduct>>

\* onChange of the variant selector
SetSelectedVariant ==
  /\ prProduct # NoProduct
  /\ \E i \in 0..(Len(prProduct.variants) - 1) : prSelectedVariant' = i
  /\ UNCHANGED <<prProduct, prAdds, cartVars, NotProduct>>

\* handleAddToCart: dispatches ADD_ITEM for the selected variant; the
\* reducer runs and the save effect follows
HandleAddToCart ==
  /\ prProduct # NoProduct
  /\ prAdds < MaxAdds
  /\ LET variant == prProduct.variants[prSelectedVariant + 1]
         payload == [productId |-> prProduct.handle,
                     variantId |-> variant.id,
                     title |-> prProduct.title,
                     variantTitle |-> variant.title,
                     image |-> prProduct.featuredImage,
                     price |-> ParseFloat(variant.price)]
     IN /\ items' = AddItem(items, payload)
        /\ isOpen' = TRUE
        /\ SaveEffect(items')
        /\ last' = [type |-> "ADD_ITEM", productId |-> payload.productId,
                    variantId |-> payload.variantId]
  /\ prAdds' = prAdds + 1
  /\ UNCHANGED <<prProduct, prSelectedVariant, NotProduct>>

\* the page's buttons, and the cart drawer's close button
ProductNext ==
  \/ ProductOpen
  \/ SetSelectedVariant
  \/ HandleAddToCart
  \/ CLOSE_CART

ProductIdle ==
  /\ prProduct = NoProduct /\ prSelectedVariant = 0 /\ prAdds = 0

\* ---------------------------------------------------------------- utils/images.ts
\* A URL is a sequence of tokens: each reserved character is a token of
\* its own, a run of unreserved characters is one token.
IMAGE_SIZES == [blur |-> 20, thumbnail |-> 400, preview |-> 800, full |-> 1600]

ImageSizes == {IMAGE_SIZES[k] : k \in DOMAIN IMAGE_SIZES}

ImageUrls ==
  { <<>>,
    <<"https", ":", "/", "/", "ids.si.edu", "/", "ids", "/",
      "deliveryService", "?", "id", "=", "SAAM-1967.66.3_1">>,
    <<"https", ":", "/", "/", "ids.si.edu", "/", "img">>,
    <<"https", ":", "/", "/", "cdn.shopify.com", "/", "a.jpg", "?", "v",
      "=", "1">>,
    <<"https", ":", "/", "/", "example.com", "/", "b.png">> }

\* the options argument left out: {}
NoOptions ==
  [quality |-> "undefined", format |-> "undefined", crop |-> "undefined"]

\* a destructuring default
DefaultTo(x, d) == IF x = "undefined" THEN d ELSE x

DigitChar(d) ==
  CASE d = 0 -> "0" [] d = 1 -> "1" [] d = 2 -> "2" [] d = 3 -> "3"
    [] d = 4 -> "4" [] d = 5 -> "5" [] d = 6 -> "6" [] d = 7 -> "7"
    [] d = 8 -> "8" [] d = 9 -> "9"

\* `${maxSize}` for a non-negative integer
RECURSIVE NumberToString(_)
NumberToString(n) ==
  IF n < 10 THEN <<DigitChar(n)>>
  ELSE NumberToString(n \div 10) \o <<DigitChar(n % 10)>>

\* url.includes(t), for a token t
Includes(url, t) == \E i \in 1..Len(url) : url[i] = t

EncodeToken(t) ==
  CASE t = ":" -> "%3A" [] t = "/" -> "%2F" [] t = "?" -> "%3F"
    [] t = "=" -> "%3D" [] t = "&" -> "%26" [] t = "," -> "%2C"
    [] OTHER -> t

\* encodeURIComponent
EncodeURIComponent(url) == [i \in 1..Len(url) |-> EncodeToken(url[i])]

\* parts.join(sep)
RECURSIVE Join(_, _)
Join(parts, sep) ==
  IF parts = <<>> THEN <<>>
  ELSE IF Len(parts) = 1 THEN parts[1]
  ELSE parts[1] \o <<sep>> \o Join(Tail(parts), sep)

GetCloudinaryUrlBugDprAuto(url, maxSize, options) ==
  <<"https", ":", "/", "/", "res.cloudinary.com", "/", imgCloud, "/",
    "image", "/", "fetch", "/">>
    \o Join(<< <<"w_">> \o NumberToString(maxSize), <<"c_", "limit">>,
               <<"q_", "auto">>, <<"f_", "auto">>, <<"dpr_", "auto">> >>, ",")
    \o <<"/">> \o EncodeURIComponent(url)

GetCloudinaryUrl(url, maxSize, options) ==
  LET quality == DefaultTo(options.quality, "auto")
      format == DefaultTo(options.format, "auto")
      crop == DefaultTo(options.crop, "limit")
      transforms ==
        Join(<< <<"w_">> \o NumberToString(maxSize), <<"c_", crop>>,
                <<"q_", quality>>, <<"f_", format>> >>, ",")
      encodedUrl == EncodeURIComponent(url)
  IN <<"https", ":", "/", "/", "res.cloudinary.com", "/", imgCloud, "/",
       "image", "/", "fetch", "/">> \o transforms \o <<"/">> \o encodedUrl

GetSmithsonianUrl(url, maxSize) ==
  IF ~Includes(url, "ids.si.edu") THEN url
  ELSE LET separator == IF Includes(url, "?") THEN "&" ELSE "?"
       IN url \o <<separator, "max", "=">> \o NumberToString(maxSize)

GetResizedImage(url, maxSize, options) ==
  IF url = <<>> THEN <<>>
  ELSE IF imgCloud # "" THEN GetCloudinaryUrl(url, maxSize, options)
  ELSE GetSmithsonianUrl(url, maxSize)

\* a component calls getResizedImage(url, size)
CallGetResizedImage ==
  /\ Len(imgCalls) < MaxCalls
  /\ \E url \in ImageUrls, size \in ImageSizes :
       imgCalls' = Append(imgCalls,
                     [url |-> url, maxSize |-> size,
                      result |-> GetResizedImage(url, size, NoOptions)])
  /\ UNCHANGED <<imgCloud, NotImage>>

ImageNext == CallGetResizedImage

ImageIdle == imgCloud = "" /\ imgCalls = <<>>

\* ---------------------------------------------------------------- ProductCard
\* product.image of the products the grid shows (never empty)
CardImages == ImageUrls \ {<<>>}

\* product.priceRange?.minPrice
CardMinPrices ==
  {<<>>, <<"3", "9", ".", "5">>, <<"1", "4", "5", ".", "0", "0">>}

\* price: parseFloat(minPrice), or 45 without a price range
CardPrice(minPrice) ==
  IF minPrice = <<>> THEN 4500 ELSE ParseFloat(minPrice)

ThumbnailSrc(image) ==
  GetResizedImage(image, IMAGE_SIZES.thumbnail, NoOptions)

FallbackSrc(image) ==
  IF Includes(image, "ids.si.edu")
  THEN image \o <<IF Includes(image, "?") THEN "&" ELSE "?", "max", "=">>
             \o NumberToString(IMAGE_SIZES.thumbnail)
  ELSE image

\* imgProps.src
CardSrc(image, fallback) ==
  IF fallback THEN FallbackSrc(image) ELSE ThumbnailSrc(image)

HandleImageErrorBugKeepsTrying(st) == [st EXCEPT !.useFallback = TRUE]

\* handleImageError on the state [useFallback, imageError]
HandleImageError(st) ==
  IF ~st.useFallback
  THEN [st EXCEPT !.useFallback = TRUE]
  ELSE [st EXCEPT !.imageError = TRUE]

\* the card mounts and its img element starts loading the thumbnail
CardMount ==
  /\ cardPc = "unmounted"
  /\ cardPc' = "mounted"
  /\ \E image \in CardImages :
       /\ cardImage' = image
       /\ cardLoads' = <<CardSrc(image, FALSE)>>
  /\ \E minPrice \in CardMinPrices : cardPrice' = CardPrice(minPrice)
  /\ isLoaded' \in BOOLEAN     \* useState(priority)
  /\ useFallback' = FALSE
  /\ imageError' = FALSE
  /\ cardImg' = "loading"
  /\ UNCHANGED NotCard

\* onLoad, or the effect finding the image complete
CardImageLoads ==
  /\ cardImg = "loading"
  /\ cardImg' = "loaded"
  /\ isLoaded' = TRUE
  /\ UNCHANGED <<cardPc, cardImage, cardPrice, useFallback, imageError,
                 cardLoads, NotCard>>

\* onError: handleImageError, then the render that follows. The img
\* element starts a load only when its src attribute changes; with
\* imageError it is not rendered.
CardImageError ==
  /\ cardImg = "loading"
  /\ LET st == HandleImageError([useFallback |-> useFallback,
                                  imageError |-> imageError])
         src == CardSrc(cardImage, st.useFallback)
     IN /\ useFallback' = st.useFallback
        /\ imageError' = st.imageError
        /\ IF st.imageError
           THEN cardImg' = "none" /\ UNCHANGED cardLoads
           ELSE IF src # cardLoads[Len(cardLoads)]
           THEN cardImg' = "loading" /\ cardLoads' = Append(cardLoads, src)
           ELSE cardImg' = "failed" /\ UNCHANGED cardLoads
  /\ UNCHANGED <<cardPc, cardImage, cardPrice, isLoaded, NotCard>>

CardNext ==
  \/ CardMount
  \/ CardImageLoads
  \/ CardImageError

CardIdle ==
  /\ cardPc = "unmounted" /\ cardImage = <<>> /\ cardPrice = 0
  /\ isLoaded = FALSE /\ useFallback = FALSE /\ imageError = FALSE
  /\ cardImg = "none" /\ cardLoads = <<>>

\* ---------------------------------------------------------------- gallery Product page
NoVariant == [id |-> "undefined"]

Option(size, frame) ==
  <<[name |-> "Size", value |-> size], [name |-> "Frame", value |-> frame]>>

\* A Shopify product with Size and Frame options (one combination has no
\* variant), and an artwork from the JSON files, which has no variants.
GalleryProducts ==
  { [id |-> "the-gulf-stream", title |-> "The Gulf Stream",
     artist |-> "Winslow Homer", image |-> "i1",
     sizes |-> <<"8x10", "24x30">>,
     frames |-> <<"Unframed", "Black Frame">>,
     variants |->
       << [id |-> "gid://shopify/ProductVariant/11",
           price |-> <<"4", "5", ".", "0", "0">>,
           selectedOptions |-> Option("8x10", "Unframed")],
          [id |-> "gid://shopify/ProductVariant/12",
           price |-> <<"7", "5", ".", "9", "9">>,
           selectedOptions |-> Option("8x10", "Black Frame")],
          [id |-> "gid://shopify/ProductVariant/13",
           price |-> <<"1", "4", "5", ".", "0", "0">>,
           selectedOptions |-> Option("24x30", "Unframed")] >>],
    [id |-> "saam-1967.66.3", title |-> "High Cliff",
     artist |-> "Winslow Homer", image |-> "i2",
     sizes |-> <<"8x10">>, frames |-> <<"Unframed">>,
     variants |-> <<>>] }

\* product.variants.find(v => v.selectedOptions.some(Size) && ...some(Frame))
SelectedVariant(product, size, frame) ==
  LET Matches(v) ==
        /\ \E i \in 1..Len(v.selectedOptions) :
             v.selectedOptions[i].name = "Size"
               /\ v.selectedOptions[i].value = size
        /\ \E i \in 1..Len(v.selectedOptions) :
             v.selectedOptions[i].name = "Frame"
               /\ v.selectedOptions[i].value = frame
      vs == product.variants
  IN IF \E k \in 1..Len(vs) : Matches(vs[k])
     THEN vs[CHOOSE k \in 1..Len(vs) :
               Matches(vs[k]) /\ \A j \in 1..(k - 1) : ~Matches(vs[j])]
     ELSE NoVariant

\* const price = selectedVariant ? parseFloat(selectedVariant.price) : 0
GalleryPrice(product, size, frame) ==
  LET v == SelectedVariant(product, size, frame)
  IN IF v = NoVariant THEN 0 ELSE ParseFloat(v.price)

\* price.toFixed(0): the nearest whole number, as text
ToFixed0(hundredths) == NumberToString((hundredths + 50) \div 100)

\* the large price on the page: ${price.toFixed(0)}
DisplayedPrice ==
  <<"$">> \o ToFixed0(GalleryPrice(gProduct, selectedSize, selectedFrame))

\* the gallery cart's case 'ADD_ITEM'
GalleryAddItem(its, p) ==
  LET itemKey == ItemKey(p.productId, p.variantId)
      existingIndex == FindIndex(its, itemKey)
  IN IF existingIndex > 0
     THEN [its EXCEPT ![existingIndex].quantity = @ + 1]
     ELSE Append(its, [key |-> itemKey,
                       productId |-> p.productId, variantId |-> p.variantId,
                       sizeId |-> p.sizeId, frameId |-> p.frameId,
                       title |-> p.title, artist |-> p.artist,
                       image |-> p.image, price |-> p.price, quantity |-> 1])

\* the gallery cart's JSON.stringify({ items })
GalleryStringify(its) ==
  [kind |-> "json",
   items |-> [i \in 1..Len(its) |->
                <<its[i].key, its[i].productId, its[i].variantId,
                  its[i].sizeId, its[i].frameId, its[i].title,
                  its[i].artist, its[i].image, its[i].price,
                  its[i].quantity>>]]

\* the gallery cart's save effect
GallerySaveEffect(newItems) ==
  \E ok \in BOOLEAN :
    /\ stored' = IF ok THEN GalleryStringify(newItems) ELSE stored
    /\ lastSave' = IF ok THEN "ok" ELSE "threw"

\* the page opens from a grid card, the product in the router state
GalleryOpenWithProduct ==
  /\ selectedSize = ""
  /\ \E p \in GalleryProducts :
       /\ gProduct' = p
       /\ selectedSize' = p.sizes[1]
       /\ selectedFrame' = p.frames[1]
  /\ UNCHANGED <<gClicks, gDispatched, cartVars, NotGallery>>

\* the page opens by URL: no product yet, the selections take the defaults
GalleryOpenById ==
  /\ selectedSize = ""
  /\ gProduct' = NoProduct
  /\ selectedSize' = "8x10"
  /\ selectedFrame' = "Unframed"
  /\ UNCHANGED <<gClicks, gDispatched, cartVars, NotGallery>>

\* fetchProductById found the product
GalleryFetchReturns ==
  /\ selectedSize # "" /\ gProduct = NoProduct
  /\ \E p \in GalleryProducts : gProduct' = p
  /\ UNCHANGED <<selectedSize, selectedFrame, gClicks, gDispatched, cartVars,
                 NotGallery>>

SetSelectedSize ==
  /\ gProduct # NoProduct
  /\ \E i \in 1..Len(gProduct.sizes) : selectedSize' = gProduct.sizes[i]
  /\ UNCHANGED <<gProduct, selectedFrame, gClicks, gDispatched, cartVars,
                 NotGallery>>

SetSelectedFrame ==
  /\ gProduct # NoProduct
  /\ \E i \in 1..Len(gProduct.frames) : selectedFrame' = gProduct.frames[i]
  /\ UNCHANGED <<gProduct, selectedSize, gClicks, gDispatched, cartVars,
                 NotGallery>>

\* handleAddToCart
GalleryAddToCart ==
  /\ gProduct # NoProduct
  /\ gClicks < MaxAdds
  /\ gClicks' = gClicks + 1
  /\ LET selectedVariant == SelectedVariant(gProduct, selectedSize,
                                            selectedFrame)
         payload == [productId |-> gProduct.id,
                     variantId |-> selectedVariant.id,
                     sizeId |-> selectedSize, frameId |-> selectedFrame,
                     title |-> gProduct.title, artist |-> gProduct.artist,
                     image |-> gProduct.image,
                     price |-> ParseFloat(selectedVariant.price)]
     IN IF selectedVariant = NoVariant
        THEN UNCHANGED <<gDispatched, cartVars>>
        ELSE /\ gDispatched' = Append(gDispatched,
                                      [type |-> "ADD_ITEM",
                                       payload |-> payload])
             /\ items' = GalleryAddItem(items, payload)
             /\ isOpen' = TRUE
             /\ GallerySaveEffect(items')
             /\ last' = [type |-> "ADD_ITEM",
                         productId |-> payload.productId,
                         variantId |-> payload.variantId]
  /\ UNCHANGED <<gProduct, selectedSize, selectedFrame, NotGallery>>

GalleryNext ==
  \/ GalleryOpenWithProduct
  \/ GalleryOpenById
  \/ GalleryFetchReturns
  \/ SetSelectedSize
  \/ SetSelectedFrame
  \/ GalleryAddToCart

GalleryIdle ==
  /\ gProduct = NoProduct /\ selectedSize = "" /\ selectedFrame = ""
  /\ gClicks = 0 /\ gDispatched = <<>>

\* ---------------------------------------------------------------- gallery store data
\* Frame options: id and priceAdd
frames ==
  << [id |-> "black", priceAdd |-> 0], [id |-> "natural", priceAdd |-> 15],
     [id |-> "walnut", priceAdd |-> 20], [id |-> "gold", priceAdd |-> 25],
     [id |-> "white", priceAdd |-> 10] >>

\* Size options: id and basePrice
sizes ==
  << [id |-> "8x10", basePrice |-> 45], [id |-> "11x14", basePrice |-> 65],
     [id |-> "16x20", basePrice |-> 95], [id |-> "24x30", basePrice |-> 145] >>

\* the ids callers pass: the defined ones, an id of no option, the empty string
SizeIds == {sizes[i].id : i \in DOMAIN sizes} \cup {"invalid", ""}
FrameIds == {frames[i].id : i \in DOMAIN frames} \cup {"invalid", ""}

\* Array.prototype.find(o => o.id === id): the first match, or undefined
RECURSIVE FindById(_, _)
FindById(list, id) ==
  IF list = <<>> THEN Undefined
  ELSE IF Head(list).id = id THEN Head(list)
  ELSE FindById(Tail(list), id)

CalculatePriceBugNoFrameCheck(sizeId, frameId) ==
  LET size == FindById(sizes, sizeId)
      frame == FindById(frames, frameId)
  IN  IF size = Undefined THEN 0
      ELSE IF frame = Undefined THEN size.basePrice
      ELSE size.basePrice + frame.priceAdd

CalculatePrice(sizeId, frameId) ==
  LET size == FindById(sizes, sizeId)
      frame == FindById(frames, frameId)
  IN  IF size = Undefined \/ frame = Undefined THEN 0
      ELSE size.basePrice + frame.priceAdd

CallCalculatePrice ==
  /\ Len(priceCalls) < MaxCalls
  /\ \E sizeId \in SizeIds, frameId \in FrameIds :
       priceCalls' = Append(priceCalls,
                            [sizeId |-> sizeId, frameId |-> frameId,
                             result |-> CalculatePrice(sizeId, frameId)])
  /\ UNCHANGED NotPrice

PriceNext == CallCalculatePrice

PriceIdle == priceCalls = <<>>

WidgetIdle == ImageIdle /\ CardIdle /\ GalleryIdle /\ PriceIdle

CartIdle ==
  /\ items = <<>> /\ isOpen = FALSE /\ stored = Stringify(<<>>)
  /\ lastSave = "ok" /\ last = [type |-> "MOUNT"]

PayIdle ==
  /\ pReq = None /\ pPc = "idle" /\ pCalls = <<>>
  /\ pIntents = <<>> /\ pResp = <<>> /\ pServed = <<>>

\* ---------------------------------------------------------------- specifications
Init == CartInit /\ OrderIdle /\ PayIdle /\ CheckoutIdle /\ HomeIdle /\ ShopifyIdle /\ ProductIdle /\ WidgetIdle

Next == CartNext

Spec == Init /\ [][Next]_vars

OrderInit == CartIdle /\ OrderIdle /\ PayIdle /\ CheckoutIdle /\ HomeIdle /\ ShopifyIdle /\ ProductIdle /\ WidgetIdle

OrderSpec == OrderInit /\ [][OrderNext]_vars

PayInit == CartIdle /\ OrderIdle /\ PayIdle /\ CheckoutIdle /\ HomeIdle /\ ShopifyIdle /\ ProductIdle /\ WidgetIdle

PaySpec == PayInit /\ [][PayNext]_vars

\* the handler serving one request after another
PayRepeatedSpec == PayInit /\ [][PayRepeatedNext]_vars

CheckoutInit ==
  /\ \E c \in CheckoutCarts :
       /\ items = c /\ stored = Stringify(c)
  /\ isOpen = FALSE /\ lastSave = "ok" /\ last = [type |-> "MOUNT"]
  /\ OrderIdle /\ PayIdle /\ CheckoutIdle /\ HomeIdle /\ ShopifyIdle /\ ProductIdle /\ WidgetIdle

CheckoutSpec == CheckoutInit /\ [][CheckoutNext]_vars

HomeInit ==
  CartIdle /\ OrderIdle /\ PayIdle /\ CheckoutIdle /\ HomeIdle /\ ShopifyIdle /\ ProductIdle /\ WidgetIdle

HomeSpec == HomeInit /\ [][HomeNext]_vars

ShopifyInit ==
  /\ \E c \in CheckoutCarts :
       /\ items = c /\ stored = Stringify(c)
  /\ isOpen = FALSE /\ lastSave = "ok" /\ last = [type |-> "MOUNT"]
  /\ OrderIdle /\ PayIdle /\ CheckoutIdle /\ HomeIdle /\ ShopifyIdle /\ ProductIdle /\ WidgetIdle

ShopifySpec == ShopifyInit /\ [][ShopifyNext]_vars

\* the page with the cart drawer in use
ShopifyEditSpec == ShopifyInit /\ [][ShopifyEditNext]_vars

ProductInit ==
  CartInit /\ OrderIdle /\ PayIdle /\ CheckoutIdle /\ HomeIdle /\ ShopifyIdle
  /\ ProductIdle /\ WidgetIdle

ProductSpec == ProductInit /\ [][ProductNext]_vars

\* the module is loaded with VITE_CLOUDINARY_CLOUD unset or set
ImageInit ==
  /\ imgCloud \in {"", "demo"} /\ imgCalls = <<>>
  /\ CartIdle /\ OrderIdle /\ PayIdle /\ CheckoutIdle /\ HomeIdle
  /\ ShopifyIdle /\ ProductIdle /\ CardIdle /\ GalleryIdle /\ PriceIdle

ImageSpec == ImageInit /\ [][ImageNext]_vars

CardInit ==
  /\ imgCloud \in {"", "demo"} /\ imgCalls = <<>>
  /\ CartIdle /\ OrderIdle /\ PayIdle /\ CheckoutIdle /\ HomeIdle
  /\ ShopifyIdle /\ ProductIdle /\ CardIdle /\ GalleryIdle /\ PriceIdle

CardSpec == CardInit /\ [][CardNext]_vars

GalleryInit ==
  /\ items = <<>> /\ isOpen = FALSE /\ stored = GalleryStringify(<<>>)
  /\ lastSave = "ok" /\ last = [type |-> "MOUNT"]
  /\ OrderIdle /\ PayIdle /\ CheckoutIdle /\ HomeIdle /\ ShopifyIdle
  /\ ProductIdle /\ WidgetIdle

GallerySpec == GalleryInit /\ [][GalleryNext]_vars

PriceInit == Init

PriceSpec == PriceInit /\ [][PriceNext]_vars

\* ---------------------------------------------------------------- claims: cart

NoDuplicateKeys ==
  \A i, j \in 1..Len(items) : i # j => items[i].key # items[j].key

\* row of its holding the pair (productId, variantId), 0 when there is none
RowOfPair(its, productId, variantId) ==
  IF \E i \in 1..Len(its) :
       its[i].productId = productId /\ its[i].variantId = variantId
  THEN CHOOSE i \in 1..Len(its) :
         its[i].productId = productId /\ its[i].variantId = variantId
  ELSE 0

AddMergesExistingRow ==
  (last'.type = "ADD_ITEM"
     /\ RowOfPair(items, last'.productId, last'.variantId) > 0)
  => LET r == RowOfPair(items, last'.productId, last'.variantId)
     IN /\ Len(items') = Len(items)
        /\ items'[r].quantity = items[r].quantity + 1
        /\ \A i \in 1..Len(items) :
             /\ i # r => items'[i] = items[i]
             /\ [items'[i] EXCEPT !.quantity = 0]
                  = [items[i] EXCEPT !.quantity = 0]

\* C1: from an empty cart, after any sequence of cart actions no two rows
\* share a key, and an ADD_ITEM whose productId and variantId match a row
\* raises that row's quantity by exactly 1 without adding a row.
C1_UniqueKeysAndMerge ==
  [](NoDuplicateKeys) /\ [][AddMergesExistingRow]_vars

C1_Witness ==
  /\ last.type = "ADD_ITEM"
  /\ Len(items) = 2
  /\ \E i \in 1..Len(items) :
       /\ items[i].productId = last.productId
       /\ items[i].variantId = last.variantId
       /\ items[i].quantity = 2

\* sum of f over its (finite) domain, independent of any order
RECURSIVE SumOver(_, _)
SumOver(f, S) ==
  IF S = {} THEN 0
  ELSE LET x == CHOOSE x \in S : TRUE IN f[x] + SumOver(f, S \ {x})

\* C2: the provider's total is the sum of price times quantity over the
\* rows, itemCount the sum of the quantities, and both are 0 exactly when
\* the item list is empty.
C2_TotalAndItemCount ==
  LET rows == 1..Len(items)
  IN /\ Total(items)
          = SumOver([i \in rows |-> items[i].price * items[i].quantity], rows)
     /\ ItemCount(items) = SumOver([i \in rows |-> items[i].quantity], rows)
     /\ ((Total(items) = 0 /\ ItemCount(items) = 0) <=> items = <<>>)

C2_Witness ==
  /\ Len(items) = 2
  /\ Total(items) = 90
  /\ ItemCount(items) = 3

Count(seq, x) == Cardinality({i \in 1..Len(seq) : seq[i] = x})

\* C3: draftOrderComplete is sent only after draftOrderCreate returned a
\* draft order id and no userErrors, each mutation is sent at most once,
\* and 200 success is answered only after draftOrderComplete returned an
\* order and no userErrors.
C3_CreateBeforeCompleteBeforeSuccess ==
  /\ Count(oCalls, "draftOrderCreate") <= 1
  /\ Count(oCalls, "draftOrderComplete") <= 1
  /\ Count(oCalls, "draftOrderComplete") = 1 =>
       /\ oCalls = <<"draftOrderCreate", "draftOrderComplete">>
       /\ oCreate.kind = "json"
       /\ ~oCreate.userErrors
       /\ oCreate.draftOrderId = "gid-draft-1"
  /\ \A i \in 1..Len(oResp) :
       (oResp[i].status = 200 /\ oResp[i].body = "success") =>
         /\ oCalls = <<"draftOrderCreate", "draftOrderComplete">>
         /\ oComplete.kind = "json"
         /\ ~oComplete.userErrors
         /\ oComplete.order = "#1001"

C3_Witness ==
  /\ oPc = "done"
  /\ oResp = <<[status |-> 200, body |-> "success", order |-> "#1001"]>>

\* the body carries email, a non-empty lineItems, shippingAddress and
\* paymentIntentId
BodyHasRequiredFields(b) ==
  /\ b.kind = "object"
  /\ b.email = "a@b.c"
  /\ b.lineItems >= 1
  /\ b.shippingAddress = "addr"
  /\ b.paymentIntentId = "pi_1"

\* C7: no Shopify request unless POST, configured and all required fields
\* present; otherwise OPTIONS gets 200, another method 405, missing
\* configuration 500 'Shopify not configured', missing fields 400
\* 'Missing required fields'.
C7_ValidationBeforeShopify ==
  oPc # "idle" =>
    IF oReq.method = "POST" /\ oReq.hasStore /\ oReq.hasToken
         /\ BodyHasRequiredFields(oReq.body)
    THEN oCalls # <<>>
    ELSE /\ oCalls = <<>>
         /\ oResp =
              << IF oReq.method = "OPTIONS" THEN Json(200, "end")
                 ELSE IF oReq.method # "POST" THEN Json(405, "Method not allowed")
                 ELSE IF ~(oReq.hasStore /\ oReq.hasToken)
                      THEN Json(500, "Shopify not configured")
                 ELSE Json(400, "Missing required fields") >>

\* ---------------------------------------------------------------- claims: create-payment-intent

\* C8: exactly one payment intent, only for POST with a valid key and
\* total > 0, amount round(total x 100) in usd, answered with its
\* clientSecret; OPTIONS 200, other methods 405, missing or invalid key
\* 500 'Stripe is not configured', missing or non-positive total 400
\* 'Invalid total amount', none of which creates an intent.
C8_PaymentIntentContract ==
  pPc = "done" =>
    LET hasTotal == pReq.body.kind = "object" /\ pReq.body.total # Undefined
    IN IF pReq.method = "POST" /\ pReq.key = "valid"
            /\ hasTotal /\ pReq.body.total.mills > 0
       THEN /\ Len(pCalls) = 1
            /\ Len(pIntents) <= 1
            /\ Len(pIntents) = 1 =>
                 \* amount - 1/2 <= total x 100 < amount + 1/2
                 /\ 10 * pIntents[1].amount - 5 <= pReq.body.total.mills
                 /\ pReq.body.total.mills < 10 * pIntents[1].amount + 5
                 /\ pIntents[1].currency = "usd"
                 /\ pResp = <<[status |-> 200, body |-> "clientSecret",
                               clientSecret |-> pIntents[1].client_secret]>>
       ELSE /\ pCalls = <<>>
            /\ pIntents = <<>>
            /\ pResp =
                 << IF pReq.method = "OPTIONS" THEN Json(200, "end")
                    ELSE IF pReq.method # "POST" THEN Json(405, "Method not allowed")
                    ELSE IF pReq.key # "valid"
                         THEN Json(500, "Stripe is not configured")
                    ELSE Json(400, "Invalid total amount") >>

\* ---------------------------------------------------------------- claims: Stripe checkout

\* C4: the order request is sent only after confirmPayment returned a
\* payment intent with status 'succeeded', itself only after a payment
\* intent was created for the page; none is sent when elements.submit or
\* confirmPayment returned an error.
C4_IntentThenConfirmThenOrder ==
  /\ (attempt.confirm # None \/ fPc \in {"confirm", "order"}) =>
       (ckPiSent >= 1 /\ clientSecret # "" /\ attempt.submit = "ok")
  /\ (attempt.orderSent \/ fPc = "order") =>
       /\ attempt.submit = "ok"
       /\ attempt.confirm.kind = "paymentIntent"
       /\ attempt.confirm.status = "succeeded"
  /\ (attempt.submit \in {"error", "threw"}
        \/ (attempt.confirm # None /\ attempt.confirm.kind # "paymentIntent"))
       => ~attempt.orderSent
  /\ Len(ckOrderRequests) <= fSubmits

C4_Witness ==
  /\ attempt.orderSent
  /\ fPc = "order"
  /\ Len(ckOrderRequests) = 1

\* C5: once Stripe confirmed with 'succeeded' and the order request has
\* settled, the page is in the success state whatever the request's
\* outcome: with the Shopify order name when order creation succeeded,
\* with the upper-cased last 8 characters of the payment intent id when
\* it failed.
C5_SuccessWhateverOrderOutcome ==
  (attempt.confirm # None /\ OrderIsDue(attempt.confirm) /\ attempt.order # None)
  => /\ orderComplete
     /\ orderName =
          IF attempt.order.kind = "json" /\ attempt.order.ok
               /\ attempt.order.name # <<>>
          THEN attempt.order.name
          ELSE <<"A", "B", "C", "1", "X", "Y", "Z", "9">>

\* ---------------------------------------------------------------- claims: Home page

\* C9: a failed product fetch shows the message with loading ended, and
\* activating Try Again starts a new product fetch for the currently
\* selected collection.
C9_TryAgainRefetches ==
  /\ hEvent.type = "fetch_failed" => (hError = LoadError /\ ~hLoading)
  /\ hEvent.type = "try_again" =>
       /\ hEvent.fetch # 0
       /\ \E f \in hInflight :
            f.id = hEvent.fetch /\ f.collection = selectedCollection

\* ---------------------------------------------------------------- claims: Shopify-hosted checkout

StatusMoves ==
  sStatus' # sStatus =>
    (sStatus = "loading" /\ sStatus' \in {"redirecting", "error"})

\* C10: the status only moves from 'loading' to 'redirecting' or 'error';
\* the browser is redirected only after cartCreate returned a checkoutUrl
\* and no userErrors; an empty cart ends in 'error' ('Your cart is empty')
\* without any Shopify request; a thrown request, a userError or a missing
\* checkoutUrl ends in 'error' with no redirect.
C10_StatusAndRedirect ==
  /\ [][StatusMoves]_vars
  /\ [](sRedirect # "" =>
          /\ sStatus = "redirecting"
          /\ sCartRes.kind = "json"
          /\ sCartRes.checkoutUrl = sRedirect
          /\ sCartRes.checkoutUrl # "undefined"
          /\ ~sCartRes.userErrors)
  /\ []((sPc # "unmounted" /\ items = <<>>) =>
          /\ sStatus = "error" /\ sErrorMsg = "Your cart is empty"
          /\ sRequests = <<>> /\ sRedirect = "")
  /\ []((sCartRes # None
           /\ (sCartRes.kind = "threw" \/ sCartRes.userErrors
                 \/ sCartRes.checkoutUrl = "undefined")) =>
          (sStatus = "error" /\ sRedirect = ""))
  /\ [](sErrorMsg = "Failed to fetch" => (sStatus = "error" /\ sRedirect = ""))

C10_Witness ==
  /\ sStatus = "redirecting"
  /\ sRedirect = "https://checkout"
  /\ Len(sLines) = 2

\* ---------------------------------------------------------------- claims: Product page

AddAppendsNewRow ==
  (last'.type = "ADD_ITEM"
     /\ RowOfPair(items, last'.productId, last'.variantId) = 0)
  => /\ Len(items') = Len(items) + 1
     /\ SubSeq(items', 1, Len(items)) = items
     /\ items'[Len(items')].productId = last'.productId
     /\ items'[Len(items')].variantId = last'.variantId
     /\ items'[Len(items')].quantity = 1

\* C11: an ADD_ITEM whose (productId, variantId) pair is the pair of no row
\* of the cart appends a row of quantity 1 for that pair and leaves every
\* existing row as it was, so rows of different products or variants are
\* never merged.
C11_NewPairAppendsRow == [][AddAppendsNewRow]_vars

C11_Witness ==
  /\ last.type = "ADD_ITEM"
  /\ Len(items) = 3
  /\ items[1].productId = items[2].productId
  /\ items[1].variantId # items[2].variantId
  /\ items[3].productId # items[1].productId
  /\ \A i \in 1..3 : items[i].quantity = 1
  /\ items[3].variantId = last.variantId

\* ---------------------------------------------------------------- claims: cart drawer and start

\* C12: after every ADD_ITEM the cart is open, whether the item was new
\* or already in the cart and whether the cart was open or closed before.
C12_AddItemOpensCart == [][last'.type = "ADD_ITEM" => isOpen']_vars

\* an ADD_ITEM on a row that was loaded by a provider start (closed cart)
C12_Witness ==
  /\ last.type = "ADD_ITEM"
  /\ isOpen
  /\ \E i \in 1..Len(items) :
       /\ items[i].productId = last.productId
       /\ items[i].quantity = 2

ClearEmptiesCart ==
  last'.type = "CLEAR_CART"
  => /\ items' = <<>>
     /\ ItemCount(items') = 0
     /\ Total(items') = 0
     /\ isOpen' = isOpen

\* C13: CLEAR_CART leaves no items (itemCount 0, total 0) whatever the
\* cart held, and leaves isOpen as it was.
C13_ClearCart == [][ClearEmptiesCart]_vars

\* a cleared cart whose drawer is open, the storage still holding the rows
\* it had (the save after the clear threw)
C13_Witness ==
  /\ last.type = "CLEAR_CART"
  /\ isOpen
  /\ items = <<>>
  /\ lastSave = "threw"
  /\ stored.kind = "json" /\ Len(stored.items) = 2

ToggleAndCloseKeepItems ==
  /\ last'.type = "TOGGLE_CART" => (isOpen' = ~isOpen /\ items' = items)
  /\ last'.type = "CLOSE_CART" => (isOpen' = FALSE /\ items' = items)

\* C14: TOGGLE_CART negates isOpen, CLOSE_CART sets it to false, neither
\* changes the items, and toggling twice gives back the state toggled.
C14_ToggleAndClose ==
  /\ [][ToggleAndCloseKeepItems]_vars
  /\ [](ToggleCart(ToggleCart(CartState)) = CartState)

C14_Witness ==
  /\ last.type = "TOGGLE_CART"
  /\ ~isOpen
  /\ Len(items) = 2

ProviderStartsClosed ==
  last'.type = "MOUNT"
  => /\ isOpen' = FALSE
     /\ stored = NoStorage
          => (items' = <<>> /\ Total(items') = 0 /\ ItemCount(items') = 0)
     /\ stored.kind = "json" => Stringify(items') = stored
     /\ lastSave = "ok" => items' = items

\* C15: a provider starts closed; on empty storage it starts with no
\* items, total 0 and itemCount 0; on stored items it starts with exactly
\* those items, whatever isOpen was when they were saved.
C15_ProviderStart == [][ProviderStartsClosed]_vars

C15_Witness ==
  /\ last.type = "MOUNT"
  /\ ~isOpen
  /\ Len(items) = 2
  /\ items[1].quantity = 2

\* ---------------------------------------------------------------- claims: Checkout page

\* C16: opened with the parameter success set, or with
\* redirect_status=succeeded, the page shows the order success message,
\* sends no payment-intent request, and the cart is cleared by the
\* CLEAR_CART the success message dispatches when it mounts.
C16_SuccessFromUrl ==
  (ckPc = "mounted"
     /\ (ckUrl.success = "true" \/ ckUrl.redirect_status = "succeeded"))
  => /\ SuccessShown
     /\ ckPiSent = 0 /\ ckPiInflight = {}
     /\ ckStripe = "none"
     /\ items = <<>>
     /\ last.type = "CLEAR_CART"

\* the page opened on the redirect of a 3-D Secure payment, with a cart
\* that held rows (storage still holds them: the save after the clear threw)
C16_Witness ==
  /\ ckPc = "mounted"
  /\ ckUrl = [success |-> "absent", redirect_status |-> "succeeded"]
  /\ SuccessShown
  /\ items = <<>>
  /\ lastSave = "threw" /\ Len(stored.items) = 2

PaymentIntentRequestSent ==
  ckPiSent' # ckPiSent
  => /\ ckPiSent' = ckPiSent + 1
     /\ items' # <<>>
     /\ ~SuccessShown'
     /\ ckPiInflight' = ckPiInflight \cup
          {[id |-> ckPiSent', method |-> "POST", items |-> items',
            total |-> Total(items')]}

PageOpenedWithItems ==
  (ckPc = "unmounted" /\ ckPc' = "mounted" /\ ~SuccessShown' /\ items # <<>>)
  => /\ ckPiSent' = 1
     /\ \E r \in ckPiInflight' :
          r.method = "POST" /\ r.items = items /\ r.total = Total(items)

\* C17: a payment-intent request is sent only while the cart has an item
\* and no success state is set; it is a POST carrying the cart's items and
\* total; with an empty cart the page shows 'Your cart is empty' with
\* loading ended and sends nothing.
C17_PaymentIntentRequest ==
  /\ [][/\ PaymentIntentRequestSent
        /\ PageOpenedWithItems
        /\ EmptyCartShown' => ckPiSent' = ckPiSent]_vars
  /\ [](EmptyCartShown => ~ckLoading)

C17_Witness ==
  /\ ckPc = "mounted"
  /\ ckPiSent = 2
  /\ \E r \in ckPiInflight :
       r.id = 2 /\ Len(r.items) = 1 /\ r.total = Total(items) /\ r.items = items

\* ---------------------------------------------------------------- claims: images

\* the decimal text of the preset sizes
SizeText(n) ==
  CASE n = 20 -> <<"2", "0">>
    [] n = 400 -> <<"4", "0", "0">>
    [] n = 800 -> <<"8", "0", "0">>
    [] n = 1600 -> <<"1", "6", "0", "0">>

\* the character a percent escape stands for
PercentDecode(t) ==
  CASE t = "%3A" -> ":" [] t = "%2F" -> "/" [] t = "%3F" -> "?"
    [] t = "%3D" -> "=" [] t = "%26" -> "&" [] t = "%2C" -> ","
    [] OTHER -> t

CloudinaryResultOk(c) ==
  LET head == <<"https", ":", "/", "/", "res.cloudinary.com", "/", imgCloud,
                "/", "image", "/", "fetch", "/">>
      seg == <<"w_">> \o SizeText(c.maxSize)
               \o <<",", "c_", "limit", ",", "q_", "auto", ",", "f_", "auto">>
      n == Len(head) + Len(seg)
      rest == SubSeq(c.result, n + 2, Len(c.result))
  IN /\ Len(c.result) = n + 1 + Len(c.url)
     /\ SubSeq(c.result, 1, Len(head)) = head
     /\ SubSeq(c.result, Len(head) + 1, n) = seg
     /\ c.result[n + 1] = "/"
     /\ \A k \in 1..Len(c.url) :
          /\ PercentDecode(rest[k]) = c.url[k]
          /\ rest[k] \notin {":", "/", "?", "=", "&", ","}
     /\ \A k \in 1..Len(c.result) : c.result[k] # "dpr_"

SmithsonianResultOk(c) ==
  IF \E k \in 1..Len(c.url) : c.url[k] = "ids.si.edu"
  THEN c.result =
         c.url \o <<IF \E k \in 1..Len(c.url) : c.url[k] = "?"
                    THEN "&" ELSE "?">>
               \o <<"max", "=">> \o SizeText(c.maxSize)
  ELSE c.result = c.url

\* C18: getResizedImage(url, size) is '' for an empty url; with a
\* Cloudinary cloud it is the fetch URL with the transform segment
\* w_<size>,c_limit,q_auto,f_auto and the URL-encoded source, without
\* dpr_auto, equal for equal (url, size) and different for different sizes;
\* without Cloudinary it is the url with max=<size> appended ('&' after a
\* query, '?' otherwise) for ids.si.edu, and the url itself otherwise.
C18_GetResizedImage ==
  /\ \A i \in 1..Len(imgCalls) :
       LET c == imgCalls[i]
       IN IF c.url = <<>> THEN c.result = <<>>
          ELSE IF imgCloud # "" THEN CloudinaryResultOk(c)
          ELSE SmithsonianResultOk(c)
  /\ \A i, j \in 1..Len(imgCalls) :
       LET c == imgCalls[i]
           d == imgCalls[j]
       IN /\ (c.url = d.url /\ c.maxSize = d.maxSize) => c.result = d.result
          /\ (imgCloud # "" /\ c.url = d.url /\ c.url # <<>>
                /\ c.maxSize # d.maxSize) => c.result # d.result

C18_Witness ==
  /\ imgCloud = "demo"
  /\ Len(imgCalls) = 2
  /\ imgCalls[1].url = imgCalls[2].url
  /\ \E k \in 1..Len(imgCalls[1].url) : imgCalls[1].url[k] = "?"
  /\ imgCalls[1].maxSize = 400 /\ imgCalls[2].maxSize = 800
  /\ imgCalls[1].result # imgCalls[2].result

\* ---------------------------------------------------------------- claims: ProductCard

\* the img element reported a load error in this step
CardErrorStep ==
  /\ cardPc = "mounted" /\ cardPc' = "mounted"
  /\ cardImg = "loading" /\ cardImg' # "loaded"
  /\ (cardImg' # "loading" \/ cardLoads' # cardLoads)

CardLoadsInOrder ==
  cardPc = "mounted"
  => /\ Len(cardLoads) \in {1, 2}
     /\ LET first == [url |-> cardImage, maxSize |-> 400,
                      result |-> cardLoads[1]]
        IN IF imgCloud # "" THEN CloudinaryResultOk(first)
           ELSE SmithsonianResultOk(first)
     /\ Len(cardLoads) = 2
          => /\ useFallback
             /\ SmithsonianResultOk([url |-> cardImage, maxSize |-> 400,
                                     result |-> cardLoads[2]])
     /\ imageError => (useFallback /\ cardImg = "none")

CardErrorHandling ==
  /\ (CardErrorStep /\ ~useFallback) => (useFallback' /\ ~imageError')
  /\ (CardErrorStep /\ useFallback) => (imageError' /\ cardImg' = "none")
  /\ imageError
       => (imageError' /\ cardImg' = "none" /\ cardLoads' = cardLoads)

MatchingVariants ==
  { k \in 1..Len(gProduct.variants) :
      gProduct.variants[k].selectedOptions
        = <<[name |-> "Size", value |-> selectedSize],
            [name |-> "Frame", value |-> selectedFrame]>> }

\* the text of an amount given in hundredths, as a price reads: whole
\* dollars, and the cents when there are any
PriceText(h) ==
  <<"$">> \o NumberToString(h \div 100)
    \o (IF h % 100 = 0 THEN <<>>
        ELSE <<".", DigitChar((h % 100) \div 10), DigitChar(h % 10)>>)

DisplayedPriceIsVariantPrice ==
  (gProduct # NoProduct /\ selectedSize # "")
  => \A k \in MatchingVariants :
       DisplayedPrice = PriceText(ParseFloat(gProduct.variants[k].price))

AddToCartDispatchesVariant ==
  gClicks' = gClicks + 1
  => IF MatchingVariants = {}
     THEN gDispatched' = gDispatched /\ items' = items
     ELSE \E k \in MatchingVariants :
            /\ Len(gDispatched') = Len(gDispatched) + 1
            /\ gDispatched'[Len(gDispatched')].type = "ADD_ITEM"
            /\ gDispatched'[Len(gDispatched')].payload.variantId
                 = gProduct.variants[k].id
            /\ gDispatched'[Len(gDispatched')].payload.price
                 = ParseFloat(gProduct.variants[k].price)

\* C20: the gallery Product page displays the price of the variant whose
\* Size and Frame options are the current selections; Add to Cart
\* dispatches ADD_ITEM with that variant's id and price, and dispatches
\* nothing when no variant matches.
C20_PriceOfSelectedVariant ==
  [](DisplayedPriceIsVariantPrice) /\ [][AddToCartDispatchesVariant]_vars

\* ---------------------------------------------------------------- claims: calculatePrice
\* the price the gallery's tables give for a size id and a frame id that are
\* both defined
TablePrice(sizeId, frameId) ==
  sizes[CHOOSE i \in DOMAIN sizes : sizes[i].id = sizeId].basePrice
  + frames[CHOOSE i \in DOMAIN frames : frames[i].id = frameId].priceAdd

KnownSize(sizeId) == \E i \in DOMAIN sizes : sizes[i].id = sizeId
KnownFrame(frameId) == \E i \in DOMAIN frames : frames[i].id = frameId

\* C21: calculatePrice(sizeId, frameId) returns the size's basePrice plus the
\* frame's priceAdd when both ids are known, 0 when either id is unknown, and
\* never a negative number for the defined sizes and frames.
C21_CalculatePrice ==
  \A n \in DOMAIN priceCalls :
    LET c == priceCalls[n] IN
      /\ (KnownSize(c.sizeId) /\ KnownFrame(c.frameId))
           => c.result = TablePrice(c.sizeId, c.frameId)
      /\ ~(KnownSize(c.sizeId) /\ KnownFrame(c.frameId)) => c.result = 0
      /\ c.result >= 0

C21_Witness ==
  /\ \E n \in DOMAIN priceCalls :
       /\ priceCalls[n].sizeId = "11x14" /\ priceCalls[n].frameId = "walnut"
       /\ priceCalls[n].result = 85
  /\ \E n \in DOMAIN priceCalls :
       /\ priceCalls[n].sizeId = "8x10" /\ priceCalls[n].frameId = "invalid"
       /\ priceCalls[n].result = 0

\* ---------------------------------------------------------------- claims: quantities and removal
\* res is its with the rows of key k taken out and every other row kept as
\* it was, in the same order
IsWithout(its, k, res) ==
  LET kept == {i \in 1..Len(its) : its[i].key # k}
  IN  /\ Len(res) = Cardinality(kept)
      /\ \A i \in kept : res[Cardinality({j \in kept : j <= i})] = its[i]

QuantitiesAtLeastOne == \A i \in 1..Len(items) : items[i].quantity >= 1

UpdateQuantityStep ==
  last'.type = "UPDATE_QUANTITY" =>
    /\ last'.quantity <= 0 => IsWithout(items, last'.key, items')
    /\ last'.quantity > 0 =>
         /\ Len(items') = Len(items)
         /\ \A i \in 1..Len(items) :
              IF items[i].key = last'.key
              THEN items'[i] = [items[i] EXCEPT !.quantity = last'.quantity]
              ELSE items'[i] = items[i]
    \* the minus button dispatches the row's quantity - 1
    /\ \A i \in 1..Len(items) :
         (items[i].key = last'.key /\ items[i].quantity = 1
            /\ last'.quantity = items[i].quantity - 1)
           => \A j \in 1..Len(items') : items'[j].key # last'.key

\* C22: every cart item has quantity at least 1 in every reachable state;
\* UPDATE_QUANTITY with a quantity of 0 or less removes the item of that
\* key, with a positive quantity it sets exactly that item's quantity and
\* leaves the others unchanged, and the minus button on an item of
\* quantity 1 removes the item.
C22_QuantityAtLeastOne ==
  [](QuantitiesAtLeastOne) /\ [][UpdateQuantityStep]_vars

\* the minus button was pressed on a row of quantity 1 (still in storage,
\* the save having failed) while another row stays in the cart
C22_Witness ==
  /\ last.type = "UPDATE_QUANTITY" /\ last.quantity = 0
  /\ lastSave = "threw" /\ stored.kind = "json"
  /\ \E i \in 1..Len(stored.items) :
       /\ ParseItem(stored.items[i]).key = last.key
       /\ ParseItem(stored.items[i]).quantity = 1
  /\ Len(items) = 1 /\ items[1].key # last.key /\ items[1].quantity = MaxQty

RemoveItemStep ==
  last'.type = "REMOVE_ITEM" =>
    /\ IsWithout(items, last'.key, items')
    /\ isOpen' = isOpen
    /\ (\A i \in 1..Len(items) : items[i].key # last'.key) => items' = items

CreateFailure ==
  IF oCreate = None THEN None
  ELSE IF oCreate.kind = "threw" THEN Json(500, "Failed to create order")
  ELSE IF oCreate.userErrors THEN Json(400, "Failed to create draft order")
  ELSE IF oCreate.draftOrderId = "undefined"
       THEN Json(500, "Draft order creation failed")
  ELSE None

CompleteFailure ==
  IF oComplete = None THEN None
  ELSE IF oComplete.kind = "threw" THEN Json(500, "Failed to create order")
  ELSE IF oComplete.userErrors THEN Json(400, "Failed to complete draft order")
  ELSE IF oComplete.order = "undefined" THEN Json(500, "Order completion failed")
  ELSE None

\* C24: every request handled by create-order gets exactly one response,
\* and once a Shopify call has been made a failure never yields success:
\* each failure of draftOrderCreate and of draftOrderComplete is answered
\* with its own status and error text.
C24_OneResponsePerFailure ==
  /\ Len(oResp) = (IF oPc = "done" THEN 1 ELSE 0)
  /\ CreateFailure # None => oResp = <<CreateFailure>> /\ oComplete = None
  /\ CompleteFailure # None => oResp = <<CompleteFailure>>
  /\ \A n \in DOMAIN oResp :
       oResp[n].status = 200 /\ oResp[n].body = "success"
         => /\ oCreate # None /\ CreateFailure = None
            /\ oComplete # None /\ CompleteFailure = None

\* the draft order was created, draftOrderComplete answered without an
\* order, and the request got the one 500 answer
C24_Witness ==
  /\ oPc = "done"
  /\ oCalls = <<"draftOrderCreate", "draftOrderComplete">>
  /\ oComplete # None /\ oComplete.kind = "json" /\ ~oComplete.userErrors
  /\ oComplete.order = "undefined"
  /\ oResp = <<Json(500, "Order completion failed")>>

\* ---------------------------------------------------------------- claims: the processing flag
\* C25: every submission of the payment form ends in the success state or
\* with processing reset to false; once elements.submit, confirmPayment and
\* the order request have all returned (handleSubmit awaits nothing), the
\* form is not left in the processing state.
C25_ProcessingEnds ==
  (ckPc = "mounted" /\ fSubmits > 0 /\ fPc = "idle")
    => (orderComplete \/ ~fProcessing)

\* ---------------------------------------------------------------- claims: payment-intent race
\* C26: when the cart changes while a payment-intent request is in flight,
\* the client secret used for payment once all requests have completed is
\* the one returned for the latest cart contents (the latest request),
\* never one returned for an earlier cart.
C26_LatestClientSecret ==
  /\ \A r \in ckPiInflight :
       (r.id = ckPiSent /\ items # <<>>) => r.items = items
  /\ (FormShown /\ ckPiInflight = {})
       => clientSecret = ClientSecretOf(ckPiSent)

\* ---------------------------------------------------------------- claims: product fetch race
\* C27: on the Home page, whenever loading is false and no error is shown,
\* the displayed products are the result of the fetch for the currently
\* selected collection; a response for a previously selected collection
\* that arrives later never replaces them.
C27_ProductsOfSelectedCollection ==
  (hPc = "mounted" /\ hConfigured /\ ~hLoading /\ hError = "null")
    => (products.kind = "fetched" /\ products.collection = selectedCollection)

\* ---------------------------------------------------------------- claims: lines of the Shopify cart
\* C28: when the Shopify-hosted checkout redirects, the Shopify cart it
\* created has exactly one line for every item of the local cart, with that
\* item's variantId as merchandise and that item's quantity.
C28_LinesMatchCart ==
  sRedirect # "" =>
    /\ Len(sLines) = Len(items)
    /\ \A i \in 1..Len(items) :
         /\ sLines[i].merchandiseId = items[i].variantId
         /\ sLines[i].quantity = items[i].quantity

\* ---------------------------------------------------------------- claims: amount of the payment intent
\* C29: the amount of a payment intent is determined by the cart items in
\* the request: two requests carrying the same items are charged the same
\* amount, whatever total the client supplies.
C29_AmountDeterminedByItems ==
  \A i, j \in DOMAIN pServed :
    (pServed[i].call # 0 /\ pServed[j].call # 0
       /\ pServed[i].items = pServed[j].items)
      => pCalls[pServed[i].call].amount = pCalls[pServed[j].call].amount

\* ---------------------------------------------------------------- claims: one cart-creation flow per mount
CartCreatesSent ==
  Cardinality({n \in DOMAIN sRequests : sRequests[n].query = "cartCreate"})

\* window.location.href is assigned only once, on the answer to cartCreate
RedirectStartsOnce ==
  sRedirect' # sRedirect => (sRedirect = "" /\ sPc = "cartCreate")

\* C30: for one mount of the Shopify-hosted checkout page the flow runs at
\* most once: however many times the effect re-runs (cart items change,
\* StrictMode double invocation), at most one cartCreate mutation is sent
\* and at most one redirect is started.
C30_FlowRunsOnce ==
  /\ [](CartCreatesSent <= 1)
  /\ [](\A n \in DOMAIN sRequests :
          sRequests[n].query = "getProduct" => n <= Len(sItems))
  /\ [][RedirectStartsOnce]_vars

\* the effect ran again after a cart edit and after the redirect, and one
\* cartCreate was sent
C30_Witness ==
  /\ sEffectRuns = MaxEffectRuns
  /\ items # sItems
  /\ sRedirect # ""
  /\ CartCreatesSent = 1

====
